---- MODULE Spec2Model ----
(***************************************************************************)
(* A model of the IGC parser of twpayne/go-igc (parser.go).                *)
(*                                                                         *)
(* Lines are sequences of bytes (integers 0..255), as in Go's []byte.      *)
(* Every regular expression of parser.go is an operator over such a        *)
(* sequence; the parser's fields are the record p; the locals of           *)
(* parseLines that survive one loop iteration are the variables records,   *)
(* bRecords, hRecordsByTLC, kRecords and errs.                             *)
(***************************************************************************)
EXTENDS Integers, Sequences, FiniteSets, TLC

VARIABLES
    pc,             \* "scan": in the loop of parse; "lines": in the loop of parseLines;
                    \* "done": returned; "hang": never returns
    lines,          \* the input lines consumed so far (lines[1..i] of the Go slice)
    p,              \* the parser struct
    records,        \* parseLines: records
    bRecords,       \* parseLines: bRecords
    hRecordsByTLC,  \* parseLines: hRecordsByTLC
    kRecords,       \* parseLines: kRecords
    errs,           \* parseLines: errs
    result,         \* what Parse / ParseLines returned: [igc, err]
    stream,         \* Parse: the bytes of the reader r (empty under ParseLines)
    scanner,        \* parse: the bufio.Scanner and its reader: [buf, rest, eof, more]
    tokens,         \* parse: lines, the tokens scanner.Text() gave so far
    manufacturers,  \* the package variables ApprovedManufacturersByTLC and
                    \* ManufacturersByTLC, and where init() is in building them
    command         \* validate-igc: main's position, os.Args[1:] done, worstStatus

vars == <<pc, lines, p, records, bRecords, hRecordsByTLC, kRecords, errs, result,
          stream, scanner, tokens, manufacturers, command>>

\* the variables outside the parser
packageVars == <<manufacturers, command>>

\* the variables of Parse and ParseLines
parserVars == <<pc, lines, p, records, bRecords, hRecordsByTLC, kRecords, errs, result,
                stream, scanner, tokens>>

\* the variables of the scanning loop of parse
scanVars == <<stream, scanner, tokens>>

----------------------------------------------------------------------------
(* Bytes.                                                                  *)

\* The printable ASCII characters 0x20..0x5F and 0x61..0x7E, in code order.
CharsLow == " !\"#$%&'()*+,-./0123456789:;<=>?@ABCDEFGHIJKLMNOPQRSTUVWXYZ[\\]^_"
CharsHigh == "abcdefghijklmnopqrstuvwxyz{|}~"

\* The byte of a one-character string.
Ord(c) ==
    IF \E i \in 1..Len(CharsLow) : SubSeq(CharsLow, i, i) = c
    THEN 31 + (CHOOSE i \in 1..Len(CharsLow) : SubSeq(CharsLow, i, i) = c)
    ELSE 96 + (CHOOSE i \in 1..Len(CharsHigh) : SubSeq(CharsHigh, i, i) = c)

\* []byte(s) for a string literal s.
Bytes(s) == [i \in 1..Len(s) |-> Ord(SubSeq(s, i, i))]

LF == 10
CR == 13

IsDigit(b) == 48 <= b /\ b <= 57
IsUpper(b) == 65 <= b /\ b <= 90
\* [0-9A-Z]
IsAlnumUpper(b) == IsDigit(b) \/ IsUpper(b)
\* [0-9\-]
IsDigitOrMinus(b) == IsDigit(b) \/ b = 45
\* . (any character but a line feed)
IsDot(b) == b # LF

\* line[a..b] are all digits / upper-case letters / non-LF, and exist.
AllDigits(line, a, b) == b <= Len(line) /\ \A i \in a..b : IsDigit(line[i])
AllUpper(line, a, b) == b <= Len(line) /\ \A i \in a..b : IsUpper(line[i])
\* (.*)\z from column a on
DotStarToEnd(line, a) == \A i \in a..Len(line) : IsDot(line[i])

\* Go's line[a-1 : b]: columns a..b, 1-based and inclusive.
Cols(line, a, b) == SubSeq(line, a, b)

----------------------------------------------------------------------------
(* Go's int on the 64-bit targets: two's complement, 64 bits, arithmetic   *)
(* wrapping silently.  A value is its eight bytes, least significant       *)
(* first, so that products and sums beyond 2^63 come out as the build      *)
(* computes them.                                                          *)

Int64Limbs == 8
LimbBase == 256

RECURSIVE limbsOf(_, _)
\* the k low bytes of the integer v
limbsOf(v, k) ==
    IF k = 0 THEN <<>> ELSE <<v % LimbBase>> \o limbsOf(v \div LimbBase, k - 1)

\* the int with the value v
Int64(v) == limbsOf(v, Int64Limbs)

\* the value of an int known to lie within 32 bits
smallInt(a) ==
    a[1] + LimbBase * a[2] + LimbBase * LimbBase * a[3]
      + LimbBase * LimbBase * LimbBase * (IF a[Int64Limbs] >= 128 THEN a[4] - LimbBase ELSE a[4])

RECURSIVE addLimbs(_, _, _, _)
addLimbs(a, b, i, carry) ==
    IF i > Int64Limbs THEN <<>>
    ELSE <<(a[i] + b[i] + carry) % LimbBase>>
         \o addLimbs(a, b, i + 1, (a[i] + b[i] + carry) \div LimbBase)

\* a + b on int
add64(a, b) ==
    IF a = Int64(0) THEN b
    ELSE IF b = Int64(0) THEN a
    ELSE addLimbs(a, b, 1, 0)

RECURSIVE column(_, _, _, _)
\* the products of bytes that land in byte k of a * b
column(a, b, k, i) ==
    IF i > k THEN 0 ELSE a[i] * b[k + 1 - i] + column(a, b, k, i + 1)

RECURSIVE mulLimbs(_, _, _, _)
mulLimbs(a, b, k, carry) ==
    IF k > Int64Limbs THEN <<>>
    ELSE <<(column(a, b, k, 1) + carry) % LimbBase>>
         \o mulLimbs(a, b, k + 1, (column(a, b, k, 1) + carry) \div LimbBase)

\* a * b on int
mul64(a, b) ==
    IF a = Int64(0) \/ b = Int64(0) THEN Int64(0)
    ELSE mulLimbs(a, b, 1, 0)

----------------------------------------------------------------------------
(* atoi, intPow, makeYear.                                                 *)

RECURSIVE atoiDigits(_, _)
\* the loop of atoi over the digits: result = 10*result + int(b) - '0'
atoiDigits(digits, acc) ==
    IF digits = <<>> THEN acc
    ELSE atoiDigits(Tail(digits),
                    add64(mul64(Int64(10), acc), Int64(Head(digits) - 48)))

RECURSIVE atoiShort(_, _)
\* the same loop where it cannot wrap: up to MaxShortDigits digits stay
\* below 2^31
atoiShort(digits, acc) ==
    IF digits = <<>> THEN acc
    ELSE atoiShort(Tail(digits), 10 * acc + Head(digits) - 48)

MaxShortDigits == 9

\* result after the loop
atoiResult(digits) ==
    IF Len(digits) <= MaxShortDigits THEN Int64(atoiShort(digits, 0))
    ELSE atoiDigits(digits, Int64(0))

\* atoi: [ok, value]
atoi(data) ==
    LET neg    == Len(data) > 0 /\ data[1] = 45
        digits == IF neg THEN Tail(data) ELSE data
    IN  IF Len(digits) = 0 \/ \E i \in 1..Len(digits) : ~IsDigit(digits[i])
        THEN [ok |-> FALSE, value |-> Int64(0)]
        ELSE [ok |-> TRUE,
              value |-> mul64(atoiResult(digits), Int64(IF neg THEN -1 ELSE 1))]

\* atoi of text the regular expression has already shown to be digits
num(line, a, b) == atoiShort(Cols(line, a, b), 0)

RECURSIVE intPowLoop(_, _, _)
\* the loop of intPow for y >= 0: for ; y != 0; y >>= 1 { if y&1 == 1 {result *= x}; x *= x }
intPowLoop(x, y, res) ==
    IF y = 0 THEN res
    ELSE intPowLoop(mul64(x, x), y \div 2, IF y % 2 = 1 THEN mul64(res, x) ELSE res)

\* intPow terminates iff y >= 0: for y < 0 the arithmetic shift y >>= 1
\* stays at -1 and the loop never ends.
intPowTerminates(y) == y >= 0

intPow(x, y) == intPowLoop(Int64(x), y, Int64(1))

makeYear(twoDigitYear) ==
    IF twoDigitYear >= 93 THEN 1900 + twoDigitYear ELSE 2000 + twoDigitYear

----------------------------------------------------------------------------
(* time.Time, as far as the parser uses it: an instant is a day number     *)
(* (days since 0001-01-01, the zero Time), a second of that day and a      *)
(* nanosecond of that second.  All times are UTC.                          *)

SecondsPerDay == 86400
NanosPerSecond == 1000000000

\* time.Time{}
ZeroTime == [day |-> 0, sec |-> 0, nsec |-> 0]

\* t.IsZero()
IsZero(t) == t = ZeroTime

\* t.Before(u)
Before(t, u) ==
    \/ t.day < u.day
    \/ t.day = u.day /\ t.sec < u.sec
    \/ t.day = u.day /\ t.sec = u.sec /\ t.nsec < u.nsec

isLeap(year) == year % 4 = 0 /\ (year % 100 # 0 \/ year % 400 = 0)

\* days from 0001-01-01 to January 1 of year
daysSinceEpoch(year) ==
    LET y == year - 1 IN 365 * y + (y \div 4) - (y \div 100) + (y \div 400)

\* days before the 0-based month m of a non-leap year
daysBefore == <<0, 31, 59, 90, 120, 151, 181, 212, 243, 273, 304, 334>>

\* time.Date(year, month, day, 0, 0, 0, 0, time.UTC): month and day may be
\* outside their usual ranges and are normalised (month 0 is December of the
\* year before, day 0 the last day of the month before).
Date(year, month, day) ==
    LET m == (month - 1) % 12
        y == year + ((month - 1) \div 12)
        leapDay == IF isLeap(y) /\ m >= 2 THEN 1 ELSE 0
    IN  [day |-> daysSinceEpoch(y) + daysBefore[m + 1] + leapDay + day - 1,
         sec |-> 0, nsec |-> 0]

\* t.Add(d) for the duration d of seconds whole seconds plus nanos nanoseconds
Add(t, seconds, nanos) ==
    LET n == t.nsec + nanos
        s == t.sec + seconds + (n \div NanosPerSecond)
    IN  [day |-> t.day + (s \div SecondsPerDay),
         sec |-> s % SecondsPerDay,
         nsec |-> n % NanosPerSecond]

\* t.AddDate(0, 0, 1)
AddDay(t) == [t EXCEPT !.day = @ + 1]

----------------------------------------------------------------------------
(* Errors.  A line's error is the sequence of its causes (errors.Join);    *)
(* the empty sequence is the nil error.                                    *)

NoErr == <<>>

errNoDate == [kind |-> "no date", arg |-> <<>>]
atoiSyntaxError(data) == [kind |-> "syntax error", arg |-> data]
invalidAdditionError(addition, message) == [kind |-> message, arg |-> addition.TLC]
invalidRecordError(b) == [kind |-> "invalid record", arg |-> <<b>>]
missingAdditionError(addition) == [kind |-> "missing addition", arg |-> addition.TLC]
unknownRecordTypeError(b) == [kind |-> "unknown record type", arg |-> <<b>>]
invalidCharErr(b) == [kind |-> "invalid character", arg |-> <<b>>]
\* the error of a failed read of the input stream
readErr == [kind |-> "read error", arg |-> <<>>]

\* &Error{Line: i + 1, Err: err}
Error(line, err) == [Line |-> line, Err |-> err]

----------------------------------------------------------------------------
(* The parser.                                                             *)

\* a nil *RecordAddition
NoAddition == [TLC |-> <<>>, StartColumn |-> 0, FinishColumn |-> 0]

\* a nil Record (a nil interface, or a nil pointer to a record type)
NilRecord == [type |-> "nil"]

\* a nil *IGC
NilIGC == [Records |-> <<>>, Errs |-> <<>>, HRecordsByTLC |-> <<>>,
           BRecords |-> <<>>, KRecords |-> <<>>, nil |-> TRUE]

LatMinDivBase == 60000
FracSecondMulBase == 1000000000

newParser(allowInvalidChars) ==
    [allowInvalidChars      |-> allowInvalidChars,
     date                   |-> ZeroTime,
     prevTime               |-> ZeroTime,
     cRecords               |-> <<>>,
     bRecordAdditions       |-> <<>>,
     bRecordsAdditionsByTLC |-> <<>>,
     ladBRecordAddition     |-> NoAddition,
     latMinMul              |-> Int64(1),
     latMinDiv              |-> Int64(LatMinDivBase),
     lodBRecordAddition     |-> NoAddition,
     lonMinMul              |-> Int64(1),
     lonMinDiv              |-> Int64(LatMinDivBase),
     tdsBRecordAddition     |-> NoAddition,
     fracSecondMul          |-> FracSecondMulBase,
     kRecordAdditions       |-> <<>>,
     nRecordAdditions       |-> <<>>]

\* rollover with the date advanced by at most one day
rollover_atMostOneDay(date, seconds, nanos, prevTime) ==
    IF ~Before(Add(date, seconds, nanos), prevTime) THEN date ELSE AddDay(date)

\* hour, minute and second of a time-bearing line as seconds since midnight
TimeOfDaySeconds(line) == num(line, 2, 3) * 3600 + num(line, 4, 5) * 60 + num(line, 6, 7)

RECURSIVE rollover(_, _, _, _)
\* the loop of parseTime: the date advanced until date + duration is not
\* before prevTime
rollover(date, seconds, nanos, prevTime) ==
    IF ~Before(Add(date, seconds, nanos), prevTime) THEN date
    ELSE rollover(AddDay(date), seconds, nanos, prevTime)

\* parseTime with "return time.Time{}, errs" when there is no date
parseTime_noDateNotReported(q, line, nanosecond, es) ==
    IF IsZero(q.date)
    THEN [time |-> ZeroTime, errs |-> es, p |-> q]
    ELSE [time |-> Add(rollover(q.date, TimeOfDaySeconds(line), nanosecond, q.prevTime),
                       TimeOfDaySeconds(line), nanosecond),
          errs |-> es,
          p |-> [q EXCEPT !.date = rollover(q.date, TimeOfDaySeconds(line), nanosecond,
                                            q.prevTime),
                          !.prevTime = Add(rollover(q.date, TimeOfDaySeconds(line),
                                                    nanosecond, q.prevTime),
                                           TimeOfDaySeconds(line), nanosecond)]]

\* parseTime without "p.prevTime = t"
parseTime_watermarkNotUpdated(q, line, nanosecond, es) ==
    IF IsZero(q.date)
    THEN [time |-> ZeroTime, errs |-> Append(es, errNoDate), p |-> q]
    ELSE LET durationSinceMidnight == num(line, 2, 3) * 3600 + num(line, 4, 5) * 60
                                      + num(line, 6, 7)
             date == rollover(q.date, durationSinceMidnight, nanosecond, q.prevTime)
         IN  [time |-> Add(date, durationSinceMidnight, nanosecond), errs |-> es,
              p |-> [q EXCEPT !.date = date]]

\* parseTime: [time, errs, p]
parseTime(q, line, nanosecond, es) ==
    IF IsZero(q.date)
    THEN [time |-> ZeroTime, errs |-> Append(es, errNoDate), p |-> q]
    ELSE LET hour   == num(line, 2, 3)
             minute == num(line, 4, 5)
             second == num(line, 6, 7)
             durationSinceMidnight == hour * 3600 + minute * 60 + second
             date == rollover(q.date, durationSinceMidnight, nanosecond, q.prevTime)
             t    == Add(date, durationSinceMidnight, nanosecond)
         IN  [time |-> t, errs |-> es,
              p |-> [q EXCEPT !.date = date, !.prevTime = t]]

\* RecordAddition.bytesValue and RecordAddition.intValue: [value, errs, ok]
intValue(a, line, es) ==
    IF Len(line) < a.FinishColumn
    THEN [value |-> Int64(0), errs |-> Append(es, missingAdditionError(a)), ok |-> FALSE]
    ELSE LET data == Cols(line, a.StartColumn, a.FinishColumn)
             r    == atoi(data)
         IN  IF ~r.ok
             THEN [value |-> Int64(0), errs |-> Append(es, atoiSyntaxError(data)), ok |-> FALSE]
             ELSE [value |-> r.value, errs |-> es, ok |-> TRUE]

\* m[k] = v on a Go map
MapPut(m, k, v) == [x \in (DOMAIN m) \cup {k} |-> IF x = k THEN v ELSE m[x]]

RECURSIVE decodeAdditions(_, _, _, _)
\* the loop "for _, addition := range additions" of parseBRecord,
\* parseKRecord and parseNRecord: [errs, additions]
decodeAdditions(additions, line, es, map) ==
    IF additions = <<>> THEN [errs |-> es, additions |-> map]
    ELSE LET r == intValue(Head(additions), line, es)
         IN  decodeAdditions(Tail(additions), line, r.errs,
                             IF r.ok THEN MapPut(map, Head(additions).TLC, r.value) ELSE map)

----------------------------------------------------------------------------
(* The regular expressions.                                                *)

\* \AA([A-Z]{3})(.*)\z
aRecordRx(line) ==
    Len(line) >= 4 /\ line[1] = 65 /\ AllUpper(line, 2, 4) /\ DotStarToEnd(line, 5)

\* \AB(\d{2})(\d{2})(\d{2})(\d{2})(\d{5})([NS])(\d{3})(\d{5})([EW])([AV])([0-9\-]\d{4})([0-9\-]\d{4})(.*)\z
bRecordRx(line) ==
    /\ Len(line) >= 35
    /\ line[1] = 66
    /\ AllDigits(line, 2, 14)
    /\ line[15] \in {78, 83}
    /\ AllDigits(line, 16, 23)
    /\ line[24] \in {69, 87}
    /\ line[25] \in {65, 86}
    /\ IsDigitOrMinus(line[26]) /\ AllDigits(line, 27, 30)
    /\ IsDigitOrMinus(line[31]) /\ AllDigits(line, 32, 35)
    /\ DotStarToEnd(line, 36)

\* \AC(\d{2})(\d{2})(\d{2})(\d{2})(\d{2})(\d{2})(\d{2})(\d{2})(\d{2})(\d{4})([0-9\-]\d)(.*)\z
cRecordDeclarationRx(line) ==
    /\ Len(line) >= 25
    /\ line[1] = 67
    /\ AllDigits(line, 2, 23)
    /\ IsDigitOrMinus(line[24]) /\ IsDigit(line[25])
    /\ DotStarToEnd(line, 26)

\* \AC(\d{2})(\d{5})([NS])(\d{3})(\d{5})([EW])(.*)\z
cRecordWaypointRx(line) ==
    /\ Len(line) >= 18
    /\ line[1] = 67
    /\ AllDigits(line, 2, 8)
    /\ line[9] \in {78, 83}
    /\ AllDigits(line, 10, 17)
    /\ line[18] \in {69, 87}
    /\ DotStarToEnd(line, 19)

\* \AD([12])(\d{4})\z
dRecordRx(line) ==
    Len(line) = 6 /\ line[1] = 68 /\ line[2] \in {49, 50} /\ AllDigits(line, 3, 6)

\* \AE(\d{2})(\d{2})(\d{2})([A-Z]{3})(.*)\z
eRecordRx(line) ==
    /\ Len(line) >= 10
    /\ line[1] = 69
    /\ AllDigits(line, 2, 7)
    /\ AllUpper(line, 8, 10)
    /\ DotStarToEnd(line, 11)

\* \AE(\d{2})(\d{2})(\d{2})(.*)\z
eRecordWithoutTLCRx(line) ==
    Len(line) >= 7 /\ line[1] = 69 /\ AllDigits(line, 2, 7) /\ DotStarToEnd(line, 8)

\* \AF(\d{2})(\d{2})(\d{2})((?:\d{2})*)\z
fRecordRx(line) ==
    /\ Len(line) >= 7
    /\ line[1] = 70
    /\ AllDigits(line, 2, Len(line))
    /\ (Len(line) - 7) % 2 = 0

\* \AH([FOP])([0-9A-Z]{3})(.*?)(?::(.*))?\z
hRecordRx(line) ==
    /\ Len(line) >= 5
    /\ line[1] = 72
    /\ line[2] \in {70, 79, 80}
    /\ \A i \in 3..5 : IsAlnumUpper(line[i])
    /\ DotStarToEnd(line, 6)

\* \AH([A-Z])([0-9A-Z]{3})(.*?)(?::(.*))?\z
hRecordWithInvalidSourceRx(line) ==
    /\ Len(line) >= 5
    /\ line[1] = 72
    /\ IsUpper(line[2])
    /\ \A i \in 3..5 : IsAlnumUpper(line[i])
    /\ DotStarToEnd(line, 6)

\* the column of the first colon at or after column 6, or 0: the lazy (.*?)
\* ends before it and (.*) starts after it
firstColon(line) ==
    IF \E i \in 6..Len(line) : line[i] = 58
    THEN CHOOSE i \in 6..Len(line) : line[i] = 58 /\ \A j \in 6..(i - 1) : line[j] # 58
    ELSE 0

\* group 3 of hRecordRx
hLongName(line) ==
    IF firstColon(line) = 0 THEN Cols(line, 6, Len(line))
    ELSE Cols(line, 6, firstColon(line) - 1)

\* group 4 of hRecordRx
hValue(line) ==
    IF firstColon(line) = 0 THEN <<>>
    ELSE Cols(line, firstColon(line) + 1, Len(line))

\* \AHFDTE(\d{2})(\d{2})(\d{2})\z
hfdteRecordRx(line) ==
    Len(line) = 11 /\ Cols(line, 1, 5) = <<72, 70, 68, 84, 69>> /\ AllDigits(line, 6, 11)

\* (\d{2})(\d{2})(\d{2})(?:,(\d{2}))?\z, not anchored at the start: the
\* column of value at which the match starts, or 0 without a match
hfdteRecordValueRx(value) ==
    LET n == Len(value)
    IN  IF n >= 9 /\ AllDigits(value, n - 8, n - 3) /\ value[n - 2] = 44
              /\ AllDigits(value, n - 1, n)
        THEN n - 8
        ELSE IF n >= 6 /\ AllDigits(value, n - 5, n) THEN n - 5
        ELSE 0

\* \AHFFXA(\d+)\z
hffxaRecordRx(line) ==
    /\ Len(line) >= 6
    /\ Cols(line, 1, 5) = <<72, 70, 70, 88, 65>>
    /\ AllDigits(line, 6, Len(line))

\* \AG(.*)\z
gRecordRx(line) == Len(line) >= 1 /\ line[1] = 71 /\ DotStarToEnd(line, 2)

\* \A[IJM](\d{2})((?:\d{4}[A-Z]{3})*)\z
ijmRecordRx(line) ==
    /\ Len(line) >= 3
    /\ line[1] \in {73, 74, 77}
    /\ AllDigits(line, 2, 3)
    /\ (Len(line) - 3) % 7 = 0
    /\ \A k \in 0..(((Len(line) - 3) \div 7) - 1) :
          AllDigits(line, 4 + 7 * k, 7 + 7 * k) /\ AllUpper(line, 8 + 7 * k, 10 + 7 * k)

\* \A[KN](\d{2})(\d{2})(\d{2})(.*)\z
knRecordRx(line) ==
    Len(line) >= 7 /\ line[1] \in {75, 78} /\ AllDigits(line, 2, 7) /\ DotStarToEnd(line, 8)

\* \AL([A-Z]{3})(.*)\z
lRecordRx(line) ==
    Len(line) >= 4 /\ line[1] = 76 /\ AllUpper(line, 2, 4) /\ DotStarToEnd(line, 5)

\* \AL(.*)\z
lRecordWithoutTLCRx(line) == Len(line) >= 1 /\ line[1] = 76 /\ DotStarToEnd(line, 2)

\* the class with '~' left out of the invalid characters
IsInvalidChar_tildeAllowed(b) ==
    ~(\/ b = 32
      \/ 34 <= b /\ b <= 35
      \/ 37 <= b /\ b <= 41
      \/ 43 <= b /\ b <= 91
      \/ b = 93
      \/ 95 <= b /\ b <= 126)

\* [^\x20\x22-\x23\x25-\x29\x2b-\x5b\x5d\x5f-\x7d]
IsInvalidChar(b) ==
    ~(\/ b = 32
      \/ 34 <= b /\ b <= 35
      \/ 37 <= b /\ b <= 41
      \/ 43 <= b /\ b <= 91
      \/ b = 93
      \/ 95 <= b /\ b <= 125)

\* line[i] is a continuation byte within lo..hi
continues(line, i, lo, hi) == i <= Len(line) /\ lo <= line[i] /\ line[i] <= hi

\* the length of the UTF-8 sequence that a first byte announces, or 0
runeLen(b) ==
    IF b < 128 THEN 1
    ELSE IF 194 <= b /\ b <= 223 THEN 2
    ELSE IF 224 <= b /\ b <= 239 THEN 3
    ELSE IF 240 <= b /\ b <= 244 THEN 4
    ELSE 0

\* the least and greatest second byte accepted after the first byte b
secondLo(b) == IF b = 224 THEN 160 ELSE IF b = 240 THEN 144 ELSE 128
secondHi(b) == IF b = 237 THEN 159 ELSE IF b = 244 THEN 143 ELSE 191

\* the rune that a regular expression reads at column i of a string, and the
\* number of bytes it takes: a byte that starts no well-formed sequence is
\* read as utf8.RuneError (U+FFFD), one byte wide
DecodeRune(line, i) ==
    IF runeLen(line[i]) = 1 THEN [rune |-> line[i], size |-> 1]
    ELSE IF runeLen(line[i]) = 2 /\ continues(line, i + 1, 128, 191)
    THEN [rune |-> (line[i] - 192) * 64 + (line[i + 1] - 128), size |-> 2]
    ELSE IF /\ runeLen(line[i]) = 3
            /\ continues(line, i + 1, secondLo(line[i]), secondHi(line[i]))
            /\ continues(line, i + 2, 128, 191)
    THEN [rune |-> (line[i] - 224) * 4096 + (line[i + 1] - 128) * 64 + (line[i + 2] - 128),
          size |-> 3]
    ELSE IF /\ runeLen(line[i]) = 4
            /\ continues(line, i + 1, secondLo(line[i]), secondHi(line[i]))
            /\ continues(line, i + 2, 128, 191)
            /\ continues(line, i + 3, 128, 191)
    THEN [rune |-> (line[i] - 240) * 262144 + (line[i + 1] - 128) * 4096
                   + (line[i + 2] - 128) * 64 + (line[i + 3] - 128),
          size |-> 4]
    ELSE [rune |-> 65533, size |-> 1]

RECURSIVE firstInvalidRune(_, _)
\* the column at which the first rune outside the class starts, from column
\* i on, or 0
firstInvalidRune(line, i) ==
    IF i > Len(line) THEN 0
    ELSE IF IsInvalidChar(DecodeRune(line, i).rune) THEN i
    ELSE firstInvalidRune(line, i + DecodeRune(line, i).size)

\* invalidCharsRx.FindStringSubmatch(lineStr): the column of the first
\* invalid character, or 0; match[1][0] is the byte at that column
invalidCharsRx(line) == firstInvalidRune(line, 1)

\* string(c) of a byte c: the UTF-8 encoding of the rune c
stringOfByte(c) == IF c < 128 THEN <<c>> ELSE <<192 + (c \div 64), 128 + (c % 64)>>

----------------------------------------------------------------------------
(* The manufacturers.  A *Manufacturer is the table and the index of the   *)
(* entry it points to.                                                     *)

ApprovedManufacturers ==
    <<[TLC |-> Bytes("ACT"), SCC |-> 73, Name |-> "Aircotec"],
      [TLC |-> Bytes("AVX"), SCC |-> 0, Name |-> "Avionix"],
      [TLC |-> Bytes("CAM"), SCC |-> 67, Name |-> "Cambridge Aero Instruments"],
      [TLC |-> Bytes("CNI"), SCC |-> 0, Name |-> "ClearNav Instruments"],
      [TLC |-> Bytes("DSX"), SCC |-> 68, Name |-> "Data Swan/DSX"],
      [TLC |-> Bytes("EWA"), SCC |-> 69, Name |-> "EW Avionics"],
      [TLC |-> Bytes("FIL"), SCC |-> 70, Name |-> "Filser"],
      [TLC |-> Bytes("FLA"), SCC |-> 71, Name |-> "Flarm (Flight Alarm)"],
      [TLC |-> Bytes("FLY"), SCC |-> 0, Name |-> "Flytech"],
      [TLC |-> Bytes("GCS"), SCC |-> 65, Name |-> "Garrecht"],
      [TLC |-> Bytes("IMI"), SCC |-> 77, Name |-> "IMI Gliding Equipment"],
      [TLC |-> Bytes("LGS"), SCC |-> 0, Name |-> "Logstream"],
      [TLC |-> Bytes("LXN"), SCC |-> 76, Name |-> "LX Navigation"],
      [TLC |-> Bytes("LXV"), SCC |-> 86, Name |-> "LXNAV d.o.o."],
      [TLC |-> Bytes("NAV"), SCC |-> 0, Name |-> "Naviter"],
      [TLC |-> Bytes("NTE"), SCC |-> 78, Name |-> "New Technologies s.r.l."],
      [TLC |-> Bytes("NKL"), SCC |-> 75, Name |-> "Nielsen Kellerman"],
      [TLC |-> Bytes("PES"), SCC |-> 80, Name |-> "Peschges"],
      [TLC |-> Bytes("PFE"), SCC |-> 0, Name |-> "PressFinish Electronics"],
      [TLC |-> Bytes("PRT"), SCC |-> 82, Name |-> "Print Technik"],
      [TLC |-> Bytes("RCE"), SCC |-> 0, Name |-> "RC Electronics"],
      [TLC |-> Bytes("SCH"), SCC |-> 72, Name |-> "Scheffel"],
      [TLC |-> Bytes("SDI"), SCC |-> 83, Name |-> "Streamline Data Instruments"],
      [TLC |-> Bytes("TRI"), SCC |-> 84, Name |-> "Triadis Engineering GmbH"],
      [TLC |-> Bytes("ZAN"), SCC |-> 90, Name |-> "Zander"]>>

NonApprovedManufacturers ==
    <<[TLC |-> Bytes("XAH"), SCC |-> 88, Name |-> "Ascent"],
      [TLC |-> Bytes("XBM"), SCC |-> 88, Name |-> "Burnair"],
      [TLC |-> Bytes("XCM"), SCC |-> 88, Name |-> "Naviter"],
      [TLC |-> Bytes("XCS"), SCC |-> 88, Name |-> "XCSoar"],
      [TLC |-> Bytes("XCT"), SCC |-> 88, Name |-> "XC Track"],
      [TLC |-> Bytes("XGD"), SCC |-> 88, Name |-> "GpsDump"],
      [TLC |-> Bytes("XFH"), SCC |-> 88, Name |-> "Flyskyhy"],
      [TLC |-> Bytes("XFL"), SCC |-> 88, Name |-> "FlyMe"],
      [TLC |-> Bytes("XFM"), SCC |-> 88, Name |-> "Flymaster"],
      [TLC |-> Bytes("XLK"), SCC |-> 88, Name |-> "LK8000"],
      [TLC |-> Bytes("XNA"), SCC |-> 88, Name |-> "Naviter"],
      [TLC |-> Bytes("XSD"), SCC |-> 88, Name |-> "Stodeus"],
      [TLC |-> Bytes("XSE"), SCC |-> 88, Name |-> "Syride"],
      [TLC |-> Bytes("XSR"), SCC |-> 88, Name |-> "Syride"],
      [TLC |-> Bytes("XSX"), SCC |-> 88, Name |-> "Skytraxx"],
      [TLC |-> Bytes("XTR"), SCC |-> 88, Name |-> "XC Tracer"],
      [TLC |-> Bytes("XTT"), SCC |-> 88, Name |-> "LiveTrack24"],
      [TLC |-> Bytes("XVB"), SCC |-> 88, Name |-> "VairBration"]>>

\* the table of the name
ManufacturerTable(table) ==
    IF table = "ApprovedManufacturers" THEN ApprovedManufacturers
    ELSE NonApprovedManufacturers

\* &table[i], and what it points to
ManufacturerRef(table, i) == [table |-> table, index |-> i]
Manufacturer(ref) == ManufacturerTable(ref.table)[ref.index]

\* Approved taking any X in the code for the prefix
Approved_anyX(m) == ~(\E i \in DOMAIN m.TLC : m.TLC[i] = 88)

\* Approved: !strings.HasPrefix(m.TLC, "X")
Approved(m) == ~(Len(m.TLC) >= 1 /\ m.TLC[1] = 88)

\* the maps as make() leaves them, before the first loop of init
NoManufacturers ==
    [stage |-> "ApprovedManufacturers", i |-> 1,
     ApprovedManufacturersByTLC |-> <<>>, ManufacturersByTLC |-> <<>>]

\* where init goes after iteration i over the table
afterEntry(table, i) ==
    IF i < Len(ManufacturerTable(table)) THEN [stage |-> table, i |-> i + 1]
    ELSE IF table = "ApprovedManufacturers"
         THEN [stage |-> IF NonApprovedManufacturers = <<>> THEN "done"
                         ELSE "NonApprovedManufacturers", i |-> 1]
         ELSE [stage |-> "done", i |-> 1]

\* one iteration of a loop of init: the entry m.i of the table m.stage
registerManufacturer(m) ==
    LET tlc == ManufacturerTable(m.stage)[m.i].TLC
    IN  IF m.stage = "ApprovedManufacturers"
        THEN IF tlc \in DOMAIN m.ApprovedManufacturersByTLC
             THEN [m EXCEPT !.stage = "panic"]
             ELSE [stage |-> afterEntry(m.stage, m.i).stage,
                   i |-> afterEntry(m.stage, m.i).i,
                   ApprovedManufacturersByTLC |->
                       MapPut(m.ApprovedManufacturersByTLC, tlc,
                              ManufacturerRef(m.stage, m.i)),
                   ManufacturersByTLC |->
                       MapPut(m.ManufacturersByTLC, tlc, ManufacturerRef(m.stage, m.i))]
        ELSE IF tlc \in DOMAIN m.ManufacturersByTLC
             THEN [m EXCEPT !.stage = "panic"]
             ELSE [m EXCEPT !.stage = afterEntry(m.stage, m.i).stage,
                            !.i = afterEntry(m.stage, m.i).i,
                            !.ManufacturersByTLC =
                                MapPut(m.ManufacturersByTLC, tlc,
                                       ManufacturerRef(m.stage, m.i))]

RECURSIVE initFrom(_)
\* init from the state m on
initFrom(m) ==
    IF m.stage \in {"done", "panic"} THEN m ELSE initFrom(registerManufacturer(m))

\* the package variables once init has run
initManufacturers == initFrom(NoManufacturers)

\* the result of the last lookup: nothing looked up yet
NoLookup == [map |-> "", TLC |-> <<>>, ok |-> FALSE, ref |-> ManufacturerRef("", 0)]

\* m, ok := byTLC[tlc] on one of the two maps
lookup(map, byTLC, tlc) ==
    [map |-> map, TLC |-> tlc, ok |-> tlc \in DOMAIN byTLC,
     ref |-> IF tlc \in DOMAIN byTLC THEN byTLC[tlc] ELSE ManufacturerRef("", 0)]

----------------------------------------------------------------------------
(* validate-igc.                                                           *)

StatusUnknown == 0
StatusValid == 1
StatusInvalid == 2

\* main before its loop
NoCommand == [stage |-> "loop", statuses |-> <<>>, worstStatus |-> StatusValid, exit |-> 0]

\* the switch of main's loop on the status of one file
worstAfter(worstStatus, status) ==
    CASE status = StatusValid -> worstStatus
      [] status = StatusInvalid -> IF worstStatus < 1 THEN 1 ELSE worstStatus
      [] status = StatusUnknown -> IF worstStatus < 2 THEN 2 ELSE worstStatus

----------------------------------------------------------------------------
(* The record parsers.  Each returns [record, err, p]: the record (or      *)
(* NilRecord), the causes of the line's error, and the parser after the    *)
(* call (only parseTime changes it).                                       *)

\* the three-letter codes of ApprovedManufacturers
ApprovedManufacturersByTLC ==
    {Bytes(c) : c \in {"ACT", "AVX", "CAM", "CNI", "DSX", "EWA", "FIL", "FLA", "FLY",
                       "GCS", "IMI", "LGS", "LXN", "LXV", "NAV", "NTE", "NKL", "PES",
                       "PFE", "PRT", "RCE", "SCH", "SDI", "TRI", "ZAN"}}

\* the column of the first hyphen at or after column a, or 0
firstHyphen(line, a) ==
    IF \E i \in a..Len(line) : line[i] = 45
    THEN CHOOSE i \in a..Len(line) : line[i] = 45 /\ \A j \in a..(i - 1) : line[j] # 45
    ELSE 0

\* parseARecord splitting at the first hyphen whatever the code
parseARecord_alwaysSplit(q, line) ==
    IF ~aRecordRx(line)
    THEN [record |-> NilRecord, err |-> <<invalidRecordError(65)>>, p |-> q]
    ELSE [record |->
             IF firstHyphen(line, 5) # 0
             THEN [type |-> "ARecord", ManufacturerID |-> Cols(line, 2, 4),
                   UniqueFlightRecorderID |-> Cols(line, 5, firstHyphen(line, 5) - 1),
                   AdditionalData |-> Cols(line, firstHyphen(line, 5) + 1, Len(line))]
             ELSE [type |-> "ARecord", ManufacturerID |-> Cols(line, 2, 4),
                   UniqueFlightRecorderID |-> Cols(line, 5, Len(line)),
                   AdditionalData |-> <<>>],
          err |-> NoErr, p |-> q]

parseARecord(q, line) ==
    IF ~aRecordRx(line)
    THEN [record |-> NilRecord, err |-> <<invalidRecordError(65)>>, p |-> q]
    ELSE LET tlc == Cols(line, 2, 4)
             h   == firstHyphen(line, 5)
         IN  [record |->
                 IF tlc \in ApprovedManufacturersByTLC /\ h # 0
                 THEN [type |-> "ARecord", ManufacturerID |-> tlc,
                       UniqueFlightRecorderID |-> Cols(line, 5, h - 1),
                       AdditionalData |-> Cols(line, h + 1, Len(line))]
                 ELSE [type |-> "ARecord", ManufacturerID |-> tlc,
                       UniqueFlightRecorderID |-> Cols(line, 5, Len(line)),
                       AdditionalData |-> <<>>],
              err |-> NoErr, p |-> q]

parseBRecord(q, line) ==
    IF ~bRecordRx(line)
    THEN [record |-> NilRecord, err |-> <<invalidRecordError(66)>>, p |-> q]
    ELSE LET tds == IF q.tdsBRecordAddition # NoAddition
                    THEN intValue(q.tdsBRecordAddition, line, <<>>)
                    ELSE [value |-> Int64(0), errs |-> <<>>, ok |-> FALSE]
             nanosecond == IF tds.ok THEN smallInt(mul64(Int64(q.fracSecondMul), tds.value))
                           ELSE 0
             tm  == parseTime(q, line, nanosecond, tds.errs)
             lad == IF q.ladBRecordAddition # NoAddition
                    THEN intValue(q.ladBRecordAddition, line, tm.errs)
                    ELSE [value |-> Int64(0), errs |-> tm.errs, ok |-> FALSE]
             latMin == IF lad.ok
                       THEN add64(mul64(q.latMinMul, atoi(Cols(line, 10, 14)).value), lad.value)
                       ELSE atoi(Cols(line, 10, 14)).value
             lod == IF q.lodBRecordAddition # NoAddition
                    THEN intValue(q.lodBRecordAddition, line, lad.errs)
                    ELSE [value |-> Int64(0), errs |-> lad.errs, ok |-> FALSE]
             lonMin == IF lod.ok
                       THEN add64(mul64(q.lonMinMul, atoi(Cols(line, 19, 23)).value), lod.value)
                       ELSE atoi(Cols(line, 19, 23)).value
             adds == IF Len(q.bRecordAdditions) > 0
                     THEN decodeAdditions(q.bRecordAdditions, line, lod.errs, <<>>)
                     ELSE [errs |-> lod.errs, additions |-> <<>>]
         IN  [record |->
                 [type |-> "BRecord",
                  Time |-> tm.time,
                  Lat |-> [deg |-> num(line, 8, 9), min |-> latMin, div |-> q.latMinDiv,
                           neg |-> line[15] = 83],
                  Lon |-> [deg |-> num(line, 16, 18), min |-> lonMin, div |-> q.lonMinDiv,
                           neg |-> line[24] = 87],
                  Validity |-> line[25],
                  AltBarometric |-> num(line, 26, 30),
                  AltWGS84 |-> num(line, 31, 35),
                  Additions |-> adds.additions],
              err |-> adds.errs, p |-> tm.p]

parseCRecordDeclaration(q, line) ==
    IF ~cRecordDeclarationRx(line)
    THEN [record |-> NilRecord, err |-> <<invalidRecordError(67)>>, p |-> q]
    ELSE [record |->
             [type |-> "CRecordDeclaration",
              DeclarationTime |->
                  Add(Date(makeYear(num(line, 6, 7)), num(line, 4, 5), num(line, 2, 3)),
                      num(line, 8, 9) * 3600 + num(line, 10, 11) * 60 + num(line, 12, 13), 0),
              FlightDay |-> num(line, 14, 15),
              FlightMonth |-> num(line, 16, 17),
              FlightYear |-> num(line, 18, 19),
              TaskNumber |-> num(line, 20, 23),
              NumberOfTurnpoints |-> num(line, 24, 25),
              Text |-> Cols(line, 26, Len(line))],
          err |-> NoErr, p |-> q]

parseCRecord(q, line) ==
    LET decl == parseCRecordDeclaration(q, line)
    IN  IF Len(q.cRecords) = 0 /\ decl.err = NoErr THEN decl
        ELSE IF ~cRecordWaypointRx(line)
        THEN [record |-> NilRecord, err |-> <<invalidRecordError(67)>>, p |-> q]
        ELSE [record |->
                 [type |-> "CRecordWaypoint",
                  Lat |-> [deg |-> num(line, 2, 3), min |-> num(line, 4, 8),
                           div |-> LatMinDivBase, neg |-> line[9] = 83],
                  Lon |-> [deg |-> num(line, 10, 12), min |-> num(line, 13, 17),
                           div |-> LatMinDivBase, neg |-> line[18] = 87],
                  Text |-> Cols(line, 19, Len(line))],
              err |-> NoErr, p |-> q]

parseDRecord(q, line) ==
    IF ~dRecordRx(line)
    THEN [record |-> NilRecord, err |-> <<invalidRecordError(68)>>, p |-> q]
    ELSE [record |-> [type |-> "DRecord", GPSQualifier |-> line[2],
                      DGPSStationID |-> num(line, 3, 6)],
          err |-> NoErr, p |-> q]

\* parseERecord with the record without code left unstamped
parseERecord_fallbackNotStamped(q, line) ==
    IF eRecordRx(line)
    THEN [record |-> [type |-> "ERecord", Time |-> parseTime(q, line, 0, <<>>).time,
                      TLC |-> Cols(line, 8, 10), Text |-> Cols(line, 11, Len(line))],
          err |-> parseTime(q, line, 0, <<>>).errs, p |-> parseTime(q, line, 0, <<>>).p]
    ELSE IF eRecordWithoutTLCRx(line)
    THEN [record |-> [type |-> "ERecordWithoutTLC", Time |-> ZeroTime,
                      Text |-> Cols(line, 8, Len(line))],
          err |-> NoErr, p |-> q]
    ELSE [record |-> NilRecord, err |-> <<invalidRecordError(69)>>, p |-> q]

parseERecord(q, line) ==
    IF eRecordRx(line)
    THEN LET tm == parseTime(q, line, 0, <<>>)
         IN  [record |-> [type |-> "ERecord", Time |-> tm.time, TLC |-> Cols(line, 8, 10),
                          Text |-> Cols(line, 11, Len(line))],
              err |-> tm.errs, p |-> tm.p]
    ELSE IF eRecordWithoutTLCRx(line)
    THEN LET tm == parseTime(q, line, 0, <<>>)
         IN  [record |-> [type |-> "ERecordWithoutTLC", Time |-> tm.time,
                          Text |-> Cols(line, 8, Len(line))],
              err |-> tm.errs, p |-> tm.p]
    ELSE [record |-> NilRecord, err |-> <<invalidRecordError(69)>>, p |-> q]

parseFRecord(q, line) ==
    IF ~fRecordRx(line)
    THEN [record |-> NilRecord, err |-> <<invalidRecordError(70)>>, p |-> q]
    ELSE LET tm == parseTime(q, line, 0, <<>>)
             n  == (Len(line) - 7) \div 2
         IN  [record |-> [type |-> "FRecord", Time |-> tm.time,
                          SatelliteIDs |-> [i \in 1..n |-> num(line, 6 + 2 * i, 7 + 2 * i)]],
              err |-> tm.errs, p |-> tm.p]

parseGRecord(q, line) ==
    IF ~gRecordRx(line)
    THEN [record |-> NilRecord, err |-> <<invalidRecordError(71)>>, p |-> q]
    ELSE [record |-> [type |-> "GRecord", Text |-> Cols(line, 2, Len(line))],
          err |-> NoErr, p |-> q]

\* the HFDTERecord of a date: day, month and two-digit year at columns
\* from..from+5 of data
hfdteDate(data, from) ==
    Date(makeYear(num(data, from + 4, from + 5)), num(data, from + 2, from + 3),
         num(data, from, from + 1))

parseHRecord(q, line) ==
    IF hfdteRecordRx(line)
    THEN [record |->
             [type |-> "HFDTERecord",
              HRecord |-> [type |-> "HRecord", Source |-> 70, TLC |-> <<68, 84, 69>>,
                           LongName |-> <<>>, Value |-> Cols(line, 6, 11)],
              Date |-> hfdteDate(line, 6),
              FlightNumber |-> 0],
          err |-> NoErr, p |-> q]
    ELSE IF hffxaRecordRx(line)
    THEN [record |-> [type |-> "HRecord", Source |-> 70, TLC |-> <<70, 88, 65>>,
                      LongName |-> <<>>, Value |-> Cols(line, 6, Len(line))],
          err |-> NoErr, p |-> q]
    ELSE IF ~hRecordRx(line)
    THEN IF hRecordWithInvalidSourceRx(line)
         THEN [record |-> [type |-> "HRecordWithInvalidSource", Source |-> line[2],
                           TLC |-> Cols(line, 3, 5), LongName |-> hLongName(line),
                           Value |-> hValue(line)],
               err |-> NoErr, p |-> q]
         ELSE [record |-> NilRecord, err |-> <<invalidRecordError(72)>>, p |-> q]
    ELSE LET hRecord == [type |-> "HRecord", Source |-> line[2], TLC |-> Cols(line, 3, 5),
                         LongName |-> hLongName(line), Value |-> hValue(line)]
             value   == hValue(line)
             m       == hfdteRecordValueRx(value)
         IN  IF hRecord.TLC # <<68, 84, 69>>
             THEN [record |-> hRecord, err |-> NoErr, p |-> q]
             ELSE IF m = 0
             THEN [record |-> hRecord, err |-> <<invalidRecordError(72)>>, p |-> q]
             ELSE [record |->
                      [type |-> "HFDTERecord",
                       HRecord |-> hRecord,
                       Date |-> hfdteDate(value, m),
                       FlightNumber |-> IF m + 5 < Len(value)
                                        THEN num(value, m + 7, m + 8) ELSE 0],
                   err |-> NoErr, p |-> q]

RECURSIVE additionsLoop_advancesOnReject(_, _, _, _, _, _)
\* the loop with the expected column moved past a rejected triple too
additionsLoop_advancesOnReject(line, n, i, startColumn, additions, es) ==
    IF i >= n THEN [additions |-> additions, errs |-> es]
    ELSE LET addition == [TLC |-> Cols(line, 8 + 7 * i, 10 + 7 * i),
                          StartColumn |-> num(line, 4 + 7 * i, 5 + 7 * i),
                          FinishColumn |-> num(line, 6 + 7 * i, 7 + 7 * i)]
             message == IF addition.StartColumn # startColumn THEN "invalid start column"
                        ELSE IF addition.FinishColumn < addition.StartColumn
                             THEN "invalid finish column"
                        ELSE ""
         IN  IF message = ""
             THEN additionsLoop_advancesOnReject(line, n, i + 1, addition.FinishColumn + 1,
                                                 Append(additions, addition), es)
             ELSE additionsLoop_advancesOnReject(line, n, i + 1, addition.FinishColumn + 1,
                                                 additions,
                                                 Append(es, invalidAdditionError(addition, message)))

RECURSIVE additionsLoop_finishUnchecked(_, _, _, _, _, _)
\* the loop without the check of the finish column
additionsLoop_finishUnchecked(line, n, i, startColumn, additions, es) ==
    IF i >= n THEN [additions |-> additions, errs |-> es]
    ELSE LET addition == [TLC |-> Cols(line, 8 + 7 * i, 10 + 7 * i),
                          StartColumn |-> num(line, 4 + 7 * i, 5 + 7 * i),
                          FinishColumn |-> num(line, 6 + 7 * i, 7 + 7 * i)]
         IN  IF addition.StartColumn = startColumn
             THEN additionsLoop_finishUnchecked(line, n, i + 1, addition.FinishColumn + 1,
                                                Append(additions, addition), es)
             ELSE additionsLoop_finishUnchecked(line, n, i + 1, startColumn, additions,
                                                Append(es, invalidAdditionError(addition,
                                                               "invalid start column")))

RECURSIVE additionsLoop(_, _, _, _, _, _)
\* the loop "for i := range n" of parseRecordAdditions, from triple i (0-based):
\* [additions, errs]
additionsLoop(line, n, i, startColumn, additions, es) ==
    IF i >= n THEN [additions |-> additions, errs |-> es]
    ELSE LET addition == [TLC |-> Cols(line, 8 + 7 * i, 10 + 7 * i),
                          StartColumn |-> num(line, 4 + 7 * i, 5 + 7 * i),
                          FinishColumn |-> num(line, 6 + 7 * i, 7 + 7 * i)]
             message == IF addition.StartColumn # startColumn THEN "invalid start column"
                        ELSE IF addition.FinishColumn < addition.StartColumn
                             THEN "invalid finish column"
                        ELSE ""
         IN  IF message = ""
             THEN additionsLoop(line, n, i + 1, addition.FinishColumn + 1,
                                Append(additions, addition), es)
             ELSE additionsLoop(line, n, i + 1, startColumn, additions,
                                Append(es, invalidAdditionError(addition, message)))

\* parseRecordAdditions: [additions, err]
parseRecordAdditions(line, startColumn) ==
    IF ~ijmRecordRx(line) \/ Len(line) - 3 # 7 * num(line, 2, 3)
    THEN [additions |-> <<>>, err |-> <<invalidRecordError(line[1])>>]
    ELSE LET r == additionsLoop(line, num(line, 2, 3), 0, startColumn, <<>>, <<>>)
         IN  [additions |-> r.additions, err |-> r.errs]

IRecordStartColumn == 36
JRecordStartColumn == 8
MRecordStartColumn == 8

parseIRecord(q, line) ==
    LET r == parseRecordAdditions(line, IRecordStartColumn)
    IN  IF r.err # NoErr THEN [record |-> NilRecord, err |-> r.err, p |-> q]
        ELSE [record |-> [type |-> "IRecord", Additions |-> r.additions],
              err |-> NoErr, p |-> q]

parseJRecord(q, line) ==
    LET r == parseRecordAdditions(line, JRecordStartColumn)
    IN  IF r.err # NoErr THEN [record |-> NilRecord, err |-> r.err, p |-> q]
        ELSE [record |-> [type |-> "JRecord", Additions |-> r.additions],
              err |-> NoErr, p |-> q]

parseKRecord(q, line) ==
    IF ~knRecordRx(line)
    THEN [record |-> NilRecord, err |-> <<invalidRecordError(75)>>, p |-> q]
    ELSE LET tm   == parseTime(q, line, 0, <<>>)
             adds == IF Len(q.kRecordAdditions) > 0
                     THEN decodeAdditions(q.kRecordAdditions, line, tm.errs, <<>>)
                     ELSE [errs |-> tm.errs, additions |-> <<>>]
         IN  [record |-> [type |-> "KRecord", Time |-> tm.time,
                          Additions |-> adds.additions],
              err |-> adds.errs, p |-> tm.p]

parseLRecord(q, line) ==
    IF lRecordRx(line)
    THEN [record |-> [type |-> "LRecord", Input |-> Cols(line, 2, 4),
                      Text |-> Cols(line, 5, Len(line))],
          err |-> NoErr, p |-> q]
    ELSE IF lRecordWithoutTLCRx(line)
    THEN [record |-> [type |-> "LRecordWithoutTLC", Text |-> Cols(line, 2, Len(line))],
          err |-> NoErr, p |-> q]
    ELSE [record |-> NilRecord, err |-> <<invalidRecordError(76)>>, p |-> q]

parseMRecord(q, line) ==
    LET r == parseRecordAdditions(line, MRecordStartColumn)
    IN  IF r.err # NoErr THEN [record |-> NilRecord, err |-> r.err, p |-> q]
        ELSE [record |-> [type |-> "MRecord", Additions |-> r.additions],
              err |-> NoErr, p |-> q]

parseNRecord(q, line) ==
    IF ~knRecordRx(line)
    THEN [record |-> NilRecord, err |-> <<invalidRecordError(78)>>, p |-> q]
    ELSE LET tm   == parseTime(q, line, 0, <<>>)
             adds == IF Len(q.nRecordAdditions) > 0
                     THEN decodeAdditions(q.nRecordAdditions, line, tm.errs, <<>>)
                     ELSE [errs |-> tm.errs, additions |-> <<>>]
         IN  [record |-> [type |-> "NRecord", Time |-> tm.time,
                          Additions |-> adds.additions],
              err |-> adds.errs, p |-> tm.p]

----------------------------------------------------------------------------
(* parseLines.                                                             *)

\* dispatch with no error for an unknown record type
dispatch_unknownTypeNotReported(q, line) ==
    IF line[1] \in 65..78
    THEN CASE line[1] = 65 -> parseARecord(q, line)
           [] line[1] = 66 -> parseBRecord(q, line)
           [] line[1] = 67 -> parseCRecord(q, line)
           [] line[1] = 68 -> parseDRecord(q, line)
           [] line[1] = 69 -> parseERecord(q, line)
           [] line[1] = 70 -> parseFRecord(q, line)
           [] line[1] = 71 -> parseGRecord(q, line)
           [] line[1] = 72 -> parseHRecord(q, line)
           [] line[1] = 73 -> parseIRecord(q, line)
           [] line[1] = 74 -> parseJRecord(q, line)
           [] line[1] = 75 -> parseKRecord(q, line)
           [] line[1] = 76 -> parseLRecord(q, line)
           [] line[1] = 77 -> parseMRecord(q, line)
           [] line[1] = 78 -> parseNRecord(q, line)
    ELSE [record |-> NilRecord, err |-> NoErr, p |-> q]

\* the switch on line[0]
dispatch(q, line) ==
    CASE line[1] = 65 -> parseARecord(q, line)
      [] line[1] = 66 -> parseBRecord(q, line)
      [] line[1] = 67 -> parseCRecord(q, line)
      [] line[1] = 68 -> parseDRecord(q, line)
      [] line[1] = 69 -> parseERecord(q, line)
      [] line[1] = 70 -> parseFRecord(q, line)
      [] line[1] = 71 -> parseGRecord(q, line)
      [] line[1] = 72 -> parseHRecord(q, line)
      [] line[1] = 73 -> parseIRecord(q, line)
      [] line[1] = 74 -> parseJRecord(q, line)
      [] line[1] = 75 -> parseKRecord(q, line)
      [] line[1] = 76 -> parseLRecord(q, line)
      [] line[1] = 77 -> parseMRecord(q, line)
      [] line[1] = 78 -> parseNRecord(q, line)
      [] OTHER -> [record |-> NilRecord, err |-> <<unknownRecordTypeError(line[1])>>,
                   p |-> q]

\* withInvalidChar with the invalid character cause joined in front
withInvalidChar_joinedFirst(q, line, err) ==
    IF ~q.allowInvalidChars /\ invalidCharsRx(line) # 0
    THEN <<invalidCharErr(line[invalidCharsRx(line)])>> \o err
    ELSE err

\* withInvalidChar without the test of p.allowInvalidChars
withInvalidChar_optionIgnored(q, line, err) ==
    IF invalidCharsRx(line) # 0
    THEN Append(err, invalidCharErr(line[invalidCharsRx(line)]))
    ELSE err

\* withInvalidChar with "err = invalidCharErr" whether or not err is nil
withInvalidChar_replacesErr(q, line, err) ==
    IF ~q.allowInvalidChars /\ invalidCharsRx(line) # 0
    THEN <<invalidCharErr(line[invalidCharsRx(line)])>>
    ELSE err

\* the block "if !p.allowInvalidChars": the line's error with the invalid
\* character cause joined to it
withInvalidChar(q, line, err) ==
    IF ~q.allowInvalidChars /\ invalidCharsRx(line) # 0
    THEN Append(err, invalidCharErr(line[invalidCharsRx(line)]))
    ELSE err

RECURSIVE byTLCLoop(_, _)
\* for i, bRecordAddition := range record.Additions { byTLC[TLC] = &record.Additions[i] }
byTLCLoop(byTLC, additions) ==
    IF additions = <<>> THEN byTLC
    ELSE byTLCLoop(MapPut(byTLC, Head(additions).TLC, Head(additions)), Tail(additions))

LAD == <<76, 65, 68>>
LOD == <<76, 79, 68>>
TDS == <<84, 68, 83>>

width(a) == a.FinishColumn - a.StartColumn + 1

\* case *IRecord of the type switch terminates iff intPow(10, 9-n) does
installIRecordTerminates(q, record) ==
    LET byTLC == byTLCLoop(q.bRecordsAdditionsByTLC, record.Additions)
    IN  TDS \in DOMAIN byTLC => intPowTerminates(9 - width(byTLC[TDS]))

\* case *IRecord of the type switch
installIRecord(q, record) ==
    LET byTLC == byTLCLoop(q.bRecordsAdditionsByTLC, record.Additions)
        q1 == [q EXCEPT !.bRecordAdditions = q.bRecordAdditions \o record.Additions,
                        !.bRecordsAdditionsByTLC = byTLC]
        q2 == IF LAD \in DOMAIN byTLC
              THEN [q1 EXCEPT !.ladBRecordAddition = byTLC[LAD],
                              !.latMinMul = intPow(10, width(byTLC[LAD])),
                              !.latMinDiv = mul64(Int64(LatMinDivBase), intPow(10, width(byTLC[LAD])))]
              ELSE q1
        q3 == IF LOD \in DOMAIN byTLC
              THEN [q2 EXCEPT !.lodBRecordAddition = byTLC[LOD],
                              !.lonMinMul = intPow(10, width(byTLC[LOD])),
                              !.lonMinDiv = mul64(Int64(LatMinDivBase), intPow(10, width(byTLC[LOD])))]
              ELSE q2
    IN  IF TDS \in DOMAIN byTLC
        THEN IF intPowTerminates(9 - width(byTLC[TDS]))
             THEN [q3 EXCEPT !.tdsBRecordAddition = byTLC[TDS],
                             !.fracSecondMul = smallInt(intPow(10, 9 - width(byTLC[TDS])))]
             ELSE [q3 EXCEPT !.tdsBRecordAddition = byTLC[TDS]]
        ELSE q3

\* install with a nil record clearing the date
install_nilClearsDate(q, record) ==
    CASE record.type = "HFDTERecord" -> [q EXCEPT !.date = record.Date]
      [] record.type = "IRecord" -> installIRecord(q, record)
      [] record.type = "JRecord" -> [q EXCEPT !.kRecordAdditions = record.Additions]
      [] record.type = "MRecord" -> [q EXCEPT !.nRecordAdditions = record.Additions]
      [] record.type = "nil" -> [q EXCEPT !.date = ZeroTime]
      [] OTHER -> q

\* install with a generic DTE header clearing the date
install_genericDTEClearsDate(q, record) ==
    CASE record.type = "HFDTERecord" -> [q EXCEPT !.date = record.Date]
      [] record.type = "HRecord" /\ record.TLC = <<68, 84, 69>> -> [q EXCEPT !.date = ZeroTime]
      [] record.type = "IRecord" -> installIRecord(q, record)
      [] record.type = "JRecord" -> [q EXCEPT !.kRecordAdditions = record.Additions]
      [] record.type = "MRecord" -> [q EXCEPT !.nRecordAdditions = record.Additions]
      [] OTHER -> q

\* install with a date header also resetting the watermark
install_headerResetsWatermark(q, record) ==
    CASE record.type = "HFDTERecord" ->
             [q EXCEPT !.date = record.Date, !.prevTime = record.Date]
      [] record.type = "IRecord" -> installIRecord(q, record)
      [] record.type = "JRecord" -> [q EXCEPT !.kRecordAdditions = record.Additions]
      [] record.type = "MRecord" -> [q EXCEPT !.nRecordAdditions = record.Additions]
      [] OTHER -> q

\* the parser after the type switch on the record
install(q, record) ==
    CASE record.type = "HFDTERecord" -> [q EXCEPT !.date = record.Date]
      [] record.type = "IRecord" -> installIRecord(q, record)
      [] record.type = "JRecord" -> [q EXCEPT !.kRecordAdditions = record.Additions]
      [] record.type = "MRecord" -> [q EXCEPT !.nRecordAdditions = record.Additions]
      [] OTHER -> q

\* appendAndInstall with a fix or an extension record entering its list
\* only when the line has no error
appendAndInstall_onlyCleanRecords(line, record, err, q) ==
    /\ records' = Append(records, record)
    /\ errs' = IF err # NoErr
               THEN Append(errs, Error(Len(lines) + 1, err))
               ELSE errs
    /\ bRecords' = IF record.type = "BRecord" /\ err = NoErr
                   THEN Append(bRecords, record) ELSE bRecords
    /\ kRecords' = IF record.type = "KRecord" /\ err = NoErr
                   THEN Append(kRecords, record) ELSE kRecords
    /\ hRecordsByTLC' =
           CASE record.type = "HRecord" ->
                    MapPut(hRecordsByTLC, record.TLC, record)
             [] record.type = "HFDTERecord" ->
                    MapPut(hRecordsByTLC, record.HRecord.TLC, record.HRecord)
             [] OTHER -> hRecordsByTLC
    /\ p' = install(q, record)
    /\ pc' = IF record.type = "IRecord" /\ ~installIRecordTerminates(q, record)
             THEN "hang" ELSE "lines"
    /\ UNCHANGED result

\* appendAndInstall with a header with invalid source entering the map
appendAndInstall_invalidSourceEnters(line, record, err, q) ==
    /\ records' = Append(records, record)
    /\ errs' = IF err # NoErr
               THEN Append(errs, Error(Len(lines) + 1, err))
               ELSE errs
    /\ bRecords' = IF record.type = "BRecord"
                   THEN Append(bRecords, record) ELSE bRecords
    /\ kRecords' = IF record.type = "KRecord"
                   THEN Append(kRecords, record) ELSE kRecords
    /\ hRecordsByTLC' =
           CASE record.type \in {"HRecord", "HRecordWithInvalidSource"} ->
                    MapPut(hRecordsByTLC, record.TLC, record)
             [] record.type = "HFDTERecord" ->
                    MapPut(hRecordsByTLC, record.HRecord.TLC, record.HRecord)
             [] OTHER -> hRecordsByTLC
    /\ p' = install(q, record)
    /\ pc' = IF record.type = "IRecord" /\ ~installIRecordTerminates(q, record)
             THEN "hang" ELSE "lines"
    /\ UNCHANGED result

\* the rest of an iteration of the loop of parseLines once the line's record
\* and error are known: the appends to records and errs and the type switch
appendAndInstall(line, record, err, q) ==
    /\ records' = Append(records, record)
    /\ errs' = IF err # NoErr
               THEN Append(errs, Error(Len(lines) + 1, err))
               ELSE errs
    /\ bRecords' = IF record.type = "BRecord"
                   THEN Append(bRecords, record) ELSE bRecords
    /\ kRecords' = IF record.type = "KRecord"
                   THEN Append(kRecords, record) ELSE kRecords
    /\ hRecordsByTLC' =
           CASE record.type = "HRecord" ->
                    MapPut(hRecordsByTLC, record.TLC, record)
             [] record.type = "HFDTERecord" ->
                    MapPut(hRecordsByTLC, record.HRecord.TLC, record.HRecord)
             [] OTHER -> hRecordsByTLC
    /\ p' = install(q, record)
    /\ pc' = IF record.type = "IRecord" /\ ~installIRecordTerminates(q, record)
             THEN "hang" ELSE "lines"
    /\ UNCHANGED result

\* an iteration of the loop of parseLines on a non-empty line, r being what
\* the line's record parser returned
iterate(line, r) == appendAndInstall(line, r.record, withInvalidChar(p, line, r.err), r.p)


\* one iteration of "for i, lineStr := range lines" on the next line
ParseLine(line) ==
    /\ pc = "lines"
    /\ lines' = Append(lines, line)
    /\ UNCHANGED scanVars
    /\ UNCHANGED packageVars
    /\ IF Len(line) = 0
       THEN UNCHANGED <<pc, p, records, bRecords, hRecordsByTLC, kRecords, errs, result>>
       ELSE iterate(line, dispatch(p, line))

\* parseLines returns the document
Return ==
    /\ pc = "lines"
    /\ pc' = "done"
    /\ result' = [igc |-> [Records |-> records, Errs |-> errs,
                           HRecordsByTLC |-> hRecordsByTLC, BRecords |-> bRecords,
                           KRecords |-> kRecords, nil |-> FALSE],
                  err |-> NoErr]
    /\ UNCHANGED <<lines, p, records, bRecords, hRecordsByTLC, kRecords, errs>>
    /\ UNCHANGED scanVars
    /\ UNCHANGED packageVars

\* parse: scanner.Err() is not nil, so Parse returns before parseLines runs
ScanErr ==
    /\ pc = "lines"
    /\ lines = <<>>
    /\ pc' = "done"
    /\ result' = [igc |-> NilIGC, err |-> <<readErr>>]
    /\ UNCHANGED <<lines, p, records, bRecords, hRecordsByTLC, kRecords, errs>>
    /\ UNCHANGED scanVars
    /\ UNCHANGED packageVars

\* no scanner: ParseLines is given the lines themselves
NoScanner == [buf |-> <<>>, rest |-> <<>>, eof |-> TRUE, more |-> FALSE]

\* the state after newParser(options...)
Init ==
    /\ pc = "lines"
    /\ lines = <<>>
    /\ \E allowInvalidChars \in BOOLEAN : p = newParser(allowInvalidChars)
    /\ records = <<>>
    /\ bRecords = <<>>
    /\ hRecordsByTLC = <<>>
    /\ kRecords = <<>>
    /\ errs = <<>>
    /\ result = [igc |-> NilIGC, err |-> NoErr]
    /\ stream = <<>>
    /\ scanner = NoScanner
    /\ tokens = <<>>
    /\ manufacturers = [init |-> initManufacturers, found |-> NoLookup]
    /\ command = NoCommand

----------------------------------------------------------------------------
(* parseLines as a function of the parser and the lines: what the loop has  *)
(* built after the lines ls, as the record d = [p, records, bRecords,       *)
(* hRecordsByTLC, kRecords, errs, hang].                                    *)

\* the locals of parseLines before the loop
emptyDocument(q) ==
    [p |-> q, records |-> <<>>, bRecords |-> <<>>, hRecordsByTLC |-> <<>>,
     kRecords |-> <<>>, errs |-> <<>>, hang |-> FALSE]

\* the appends of iteration i with the line's error left out
appended_errorDropped(d, i, record, err, q) ==
    [p |-> install(q, record),
     records |-> Append(d.records, record),
     bRecords |-> IF record.type = "BRecord" THEN Append(d.bRecords, record)
                  ELSE d.bRecords,
     hRecordsByTLC |->
         CASE record.type = "HRecord" -> MapPut(d.hRecordsByTLC, record.TLC, record)
           [] record.type = "HFDTERecord" ->
                  MapPut(d.hRecordsByTLC, record.HRecord.TLC, record.HRecord)
           [] OTHER -> d.hRecordsByTLC,
     kRecords |-> IF record.type = "KRecord" THEN Append(d.kRecords, record)
                  ELSE d.kRecords,
     errs |-> d.errs,
     hang |-> record.type = "IRecord" /\ ~installIRecordTerminates(q, record)]

\* the appends and the type switch of iteration i, the line's record and
\* error being known
appended(d, i, record, err, q) ==
    [p |-> install(q, record),
     records |-> Append(d.records, record),
     bRecords |-> IF record.type = "BRecord" THEN Append(d.bRecords, record)
                  ELSE d.bRecords,
     hRecordsByTLC |->
         CASE record.type = "HRecord" -> MapPut(d.hRecordsByTLC, record.TLC, record)
           [] record.type = "HFDTERecord" ->
                  MapPut(d.hRecordsByTLC, record.HRecord.TLC, record.HRecord)
           [] OTHER -> d.hRecordsByTLC,
     kRecords |-> IF record.type = "KRecord" THEN Append(d.kRecords, record)
                  ELSE d.kRecords,
     errs |-> IF err # NoErr THEN Append(d.errs, Error(i, err)) ELSE d.errs,
     hang |-> record.type = "IRecord" /\ ~installIRecordTerminates(q, record)]

\* iteration i of the loop on a non-empty line, r being what the line's
\* record parser returned
iterated(d, i, line, r) ==
    appended(d, i, r.record, withInvalidChar(d.p, line, r.err), r.p)

RECURSIVE parseLinesFrom(_, _, _)
\* the loop of parseLines from line i on
parseLinesFrom(d, ls, i) ==
    IF i > Len(ls) \/ d.hang THEN d
    ELSE parseLinesFrom(IF ls[i] = <<>> THEN d
                        ELSE iterated(d, i, ls[i], dispatch(d.p, ls[i])),
                        ls, i + 1)

\* newParser(WithAllowInvalidChars(allowInvalidChars)).parseLines(ls)
parseLines(allowInvalidChars, ls) ==
    parseLinesFrom(emptyDocument(newParser(allowInvalidChars)), ls, 1)

----------------------------------------------------------------------------
(* parse: the scanning loop.  bufio.Scanner calls scanLines on the bytes it *)
(* holds; a non-nil token is returned by Scan and appended to the lines, a  *)
(* nil token makes the Scanner read more, or stop when the reader is at its *)
(* end.  How many bytes a Read delivers, and whether the end of the input   *)
(* is reported with the last bytes or after them, is the reader's choice.   *)

\* a nil []byte
NilToken == [nil |-> TRUE, bytes |-> <<>>]

\* the column of the last byte of data that is not a carriage return, or 0
lastNonCR(data) ==
    IF \A i \in DOMAIN data : data[i] = CR THEN 0
    ELSE CHOOSE i \in DOMAIN data :
             data[i] # CR /\ \A j \in (i + 1)..Len(data) : data[j] = CR

\* trimCRs: data without its terminal carriage returns; nil when nothing is left
trimCRs(data) ==
    IF lastNonCR(data) = 0 THEN NilToken
    ELSE [nil |-> FALSE, bytes |-> SubSeq(data, 1, lastNonCR(data))]

\* bytes.IndexByte(data, b), 1-based; 0 when b is not in data
IndexByte(data, b) ==
    IF \E i \in DOMAIN data : data[i] = b
    THEN CHOOSE i \in DOMAIN data : data[i] = b /\ \A j \in 1..(i - 1) : data[j] # b
    ELSE 0

\* scanLines: [advance, token]
scanLines(data, atEOF) ==
    IF atEOF /\ Len(data) = 0 THEN [advance |-> 0, token |-> NilToken]
    ELSE IF IndexByte(data, LF) > 0
         THEN [advance |-> IndexByte(data, LF),
               token |-> trimCRs(SubSeq(data, 1, IndexByte(data, LF) - 1))]
    ELSE IF atEOF THEN [advance |-> Len(data), token |-> trimCRs(data)]
    ELSE [advance |-> 0, token |-> NilToken]

\* s.r.Read delivers the next n bytes of the input
Read(n) ==
    /\ pc = "scan"
    /\ ~scanner.eof
    /\ n \in 1..Len(scanner.rest)
    /\ scanner' = [buf  |-> scanner.buf \o SubSeq(scanner.rest, 1, n),
                   rest |-> SubSeq(scanner.rest, n + 1, Len(scanner.rest)),
                   eof  |-> FALSE,
                   more |-> FALSE]
    /\ UNCHANGED <<pc, lines, p, records, bRecords, hRecordsByTLC, kRecords, errs,
                   result, stream, tokens>>
    /\ UNCHANGED packageVars

\* s.r.Read reports the end of the input
ReadEOF ==
    /\ pc = "scan"
    /\ ~scanner.eof
    /\ scanner.rest = <<>>
    /\ scanner' = [scanner EXCEPT !.eof = TRUE, !.more = FALSE]
    /\ UNCHANGED <<pc, lines, p, records, bRecords, hRecordsByTLC, kRecords, errs,
                   result, stream, tokens>>
    /\ UNCHANGED packageVars

\* what Scan does with the result s of the split function: a non-nil token
\* is appended to the lines; after a nil token Scan reads more (more: the
\* next step is a Read), or returns false when the reader was already at its
\* end
scanned(s) ==
    /\ s.advance > 0 \/ scanner.eof
    /\ tokens' = IF s.token.nil THEN tokens ELSE Append(tokens, s.token.bytes)
    /\ scanner' = IF s.token.nil /\ scanner.eof
                  THEN [scanner EXCEPT !.buf = <<>>]
                  ELSE [scanner EXCEPT
                           !.buf = SubSeq(scanner.buf, s.advance + 1, Len(scanner.buf)),
                           !.more = s.token.nil]
    /\ pc' = IF s.token.nil /\ scanner.eof THEN "lines" ELSE "scan"

\* scanner.Scan() calls the split function on the bytes it holds
Scan ==
    /\ pc = "scan"
    /\ scanner.buf # <<>> \/ scanner.eof
    /\ ~scanner.more
    /\ scanned(scanLines(scanner.buf, scanner.eof))
    /\ UNCHANGED <<lines, p, records, bRecords, hRecordsByTLC, kRecords, errs,
                   result, stream>>
    /\ UNCHANGED packageVars

\* parseLines(lines) on the lines the scanner gave: the next iteration
ParseToken ==
    /\ Len(lines) < Len(tokens)
    /\ ParseLine(tokens[Len(lines) + 1])

\* parseLines(lines) on the lines the scanner gave: the return
ReturnParsed ==
    /\ Len(lines) = Len(tokens)
    /\ Return

----------------------------------------------------------------------------
(* Run-time panics.  Go checks every index and every slice expression: an  *)
(* index outside the value, or a slice s[low:high] without                 *)
(* 0 <= low <= high <= len(s), stops the program.                          *)

\* s[low:high] on a value of n bytes is within bounds
sliceInBounds(low, high, n) == 0 <= low /\ low <= high /\ high <= n

\* bytesValue takes line[a.StartColumn-1 : a.FinishColumn] and that slice
\* is out of bounds
bytesValuePanics(a, line) ==
    /\ ~(Len(line) < a.FinishColumn)
    /\ ~sliceInBounds(a.StartColumn - 1, a.FinishColumn, Len(line))

\* the columns of the groups that the line's parser indexes with [0]:
\* m[6][0], m[9][0], m[10][0] of a B line, m[3][0], m[6][0] of a waypoint,
\* m[1][0] of a D line and of an H line, match[1][0] of the invalid character
indexedColumns(q, line) ==
    (IF line[1] = 66 /\ bRecordRx(line) THEN {15, 24, 25} ELSE {})
    \cup (IF /\ line[1] = 67
             /\ ~(Len(q.cRecords) = 0 /\ parseCRecordDeclaration(q, line).err = NoErr)
             /\ cRecordWaypointRx(line)
          THEN {9, 18} ELSE {})
    \cup (IF line[1] = 68 /\ dRecordRx(line) THEN {2} ELSE {})
    \cup (IF /\ line[1] = 72 /\ ~hfdteRecordRx(line) /\ ~hffxaRecordRx(line)
             /\ (hRecordRx(line) \/ hRecordWithInvalidSourceRx(line))
          THEN {2} ELSE {})
    \cup (IF ~q.allowInvalidChars /\ invalidCharsRx(line) # 0
          THEN {invalidCharsRx(line)} ELSE {})

\* the additions whose bytes the line's parser reads
additionsRead(q, line) ==
    IF line[1] = 66 /\ bRecordRx(line)
    THEN ({q.tdsBRecordAddition, q.ladBRecordAddition, q.lodBRecordAddition} \ {NoAddition})
         \cup {q.bRecordAdditions[i] : i \in DOMAIN q.bRecordAdditions}
    ELSE IF line[1] = 75 /\ knRecordRx(line)
    THEN {q.kRecordAdditions[i] : i \in DOMAIN q.kRecordAdditions}
    ELSE IF line[1] = 78 /\ knRecordRx(line)
    THEN {q.nRecordAdditions[i] : i \in DOMAIN q.nRecordAdditions}
    ELSE {}

\* an iteration of parseLines on the non-empty line panics
panics(q, line) ==
    \/ \E c \in indexedColumns(q, line) : ~(1 <= c /\ c <= Len(line))
    \/ \E a \in additionsRead(q, line) : bytesValuePanics(a, line)

----------------------------------------------------------------------------
(* Inputs: a mixed file, with empty lines, unknown record types, invalid   *)
(* characters, structurally invalid lines and lines of most record types.  *)

MaxLines == 3

MixedLines ==
    {<<>>, <<0>>} \cup
    {Bytes(s) : s \in {"X", "G*", "C", "AFLY05094-extra", "LCU::HP", "HFDTE010203",
                       "B1005364607690N00610358EA0000001265*",
                       "I013645TDS", "K100537"}}

Next ==
    \/ (Len(lines) < MaxLines /\ \E line \in MixedLines : ParseLine(line))
    \/ Return
    \/ ScanErr

Spec == Init /\ [][Next]_vars

----------------------------------------------------------------------------
(* Inputs: date headers and time-bearing records.                          *)

MaxTimeLines == 4

TimeLines ==
    {Bytes(s) : s \in {"HFDTE010203", "HFDTEDATE:020203,01", "HFDTE030203",
                       "B2359594708879N00832146EA0092900941",
                       "B0000014708879N00832146EA0092900941",
                       "E120000PEV", "F235959", "K000001", "N120000"}}

NextTime ==
    \/ (Len(lines) < MaxTimeLines /\ \E line \in TimeLines : ParseLine(line))
    \/ Return
    \/ ScanErr

SpecTime == Init /\ [][NextTime]_vars

----------------------------------------------------------------------------
(* Timestamp reconstruction: C1, C2, C3.                                   *)

\* a record of a B, E, F, K or N line
TimeBearing(r) ==
    r.type \in {"BRecord", "ERecord", "ERecordWithoutTLC", "FRecord", "KRecord", "NRecord"}

\* a time-bearing record decoded after a date was established
Stamped(r) == TimeBearing(r) /\ r.Time # ZeroTime

\* the time of day of a time-bearing line, in seconds
TimeOfDay(line) == num(line, 2, 3) * 3600 + num(line, 4, 5) * 60 + num(line, 6, 7)

\* the date d advanced by k days
PlusDays(d, k) == [d EXCEPT !.day = @ + k]

\* this step decodes a time-bearing line while a date is established
TimeStep ==
    /\ Len(lines') = Len(lines) + 1
    /\ Len(records') = Len(records) + 1
    /\ TimeBearing(records'[Len(records')])
    /\ ~IsZero(p.date)

\* this step accepts a date header
HeaderStep ==
    /\ Len(records') = Len(records) + 1
    /\ records'[Len(records')].type = "HFDTERecord"

\* C1: the timestamps of the time-bearing records decoded after a date was
\* established never decrease along the record list, whatever date headers
\* lie between them.
C1_TimestampsNeverDecrease ==
    \A i, j \in DOMAIN records :
        (i < j /\ Stamped(records[i]) /\ Stamped(records[j]))
            => ~Before(records[j].Time, records[i].Time)

\* C1 witness: a stamped record, then a date header for a day before that
\* record's day, then another stamped record.
C1_Witness ==
    \E i, j, k \in DOMAIN records :
        /\ i < j /\ j < k
        /\ Stamped(records[i]) /\ Stamped(records[k])
        /\ records[j].type = "HFDTERecord"
        /\ records[j].Date.day < records[i].Time.day

\* C2: a time-bearing record is stamped date + k days + time of day for the
\* least k >= 0 that is not before the watermark; the date stays advanced by
\* k days and the watermark becomes the stamp.  A time of day that lands on
\* the watermark advances nothing, and 00:00:01 right after a fix stamped
\* 23:59:59 is stamped on the next day.
C2_RolloverStep ==
    TimeStep =>
        LET line == lines'[Len(lines')]
            tod  == TimeOfDay(line)
            t    == records'[Len(records')].Time
            k    == p'.date.day - p.date.day
        IN  /\ k >= 0
            /\ p'.date = PlusDays(p.date, k)
            /\ t = Add(PlusDays(p.date, k), tod, 0)
            /\ ~Before(t, p.prevTime)
            /\ \A j \in 0..(k - 1) : Before(Add(PlusDays(p.date, j), tod, 0), p.prevTime)
            /\ p'.prevTime = t
            /\ (Add(p.date, tod, 0) = p.prevTime => k = 0)
            /\ (/\ Len(records) >= 1
                /\ Stamped(records[Len(records)])
                /\ records[Len(records)].Time.sec = 86399
                /\ tod = 1)
               => t = [day |-> records[Len(records)].Time.day + 1, sec |-> 1, nsec |-> 0]

C2_MidnightRollover == [][C2_RolloverStep]_vars

\* C2 witness: a fix stamped 23:59:59 directly followed by a fix stamped
\* 00:00:01 of the next day, the date having advanced past the header's.
C2_Witness ==
    \E i \in DOMAIN records :
        /\ i + 1 \in DOMAIN records
        /\ records[i].type = "BRecord" /\ records[i + 1].type = "BRecord"
        /\ Stamped(records[i]) /\ records[i].Time.sec = 86399
        /\ records[i + 1].Time = [day |-> records[i].Time.day + 1, sec |-> 1, nsec |-> 0]
        /\ p.date.day = records[i].Time.day + 1
        /\ ~\E h \in DOMAIN records :
               records[h].type = "HFDTERecord" /\ records[h].Date.day = p.date.day

\* C3: an accepted date header sets the date to the header's date and leaves
\* the watermark alone; every later stamp is still not before the watermark;
\* and a fix stamped 23:59:59 on day D, a header for D+1 and a record at
\* 00:00:01 give the stamp D+1 00:00:01.
C3_HeaderStep ==
    /\ HeaderStep =>
           /\ p'.date = records'[Len(records')].Date
           /\ p'.prevTime = p.prevTime
    /\ TimeStep =>
           /\ ~Before(records'[Len(records')].Time, p.prevTime)
           /\ (/\ Len(records) >= 2
               /\ records[Len(records)].type = "HFDTERecord"
               /\ Stamped(records[Len(records) - 1])
               /\ records[Len(records) - 1].Time.sec = 86399
               /\ records[Len(records)].Date.day = records[Len(records) - 1].Time.day + 1
               /\ TimeOfDay(lines'[Len(lines')]) = 1)
              => records'[Len(records')].Time =
                     [day |-> records[Len(records)].Date.day, sec |-> 1, nsec |-> 0]

C3_DateHeaderOverwrites == [][C3_HeaderStep]_vars

\* C3 witness: the 23:59:59 / header for the next day / 00:00:01 case, and
\* the date is the header's date.
C3_Witness ==
    \E i \in DOMAIN records :
        /\ i + 2 \in DOMAIN records
        /\ Stamped(records[i]) /\ records[i].Time.sec = 86399
        /\ records[i + 1].type = "HFDTERecord"
        /\ records[i + 1].Date.day = records[i].Time.day + 1
        /\ Stamped(records[i + 2])
        /\ records[i + 2].Time = [day |-> records[i + 1].Date.day, sec |-> 1, nsec |-> 0]

\* the line has the structural shape of a time-bearing record
TimeShaped(line) ==
    /\ line # <<>>
    /\ \/ line[1] = 66 /\ bRecordRx(line)
       \/ line[1] = 69 /\ (eRecordRx(line) \/ eRecordWithoutTLCRx(line))
       \/ line[1] = 70 /\ fRecordRx(line)
       \/ line[1] \in {75, 78} /\ knRecordRx(line)

\* C12: a time-bearing line of the right shape parsed while no date is set
\* gives a record with the zero Time and a "no date" cause on its line,
\* leaves the date and the watermark as they were, and a B or K record still
\* joins its typed list.
C12_NoDateStep ==
    (/\ Len(lines') = Len(lines) + 1
     /\ IsZero(p.date)
     /\ TimeShaped(lines'[Len(lines')]))
    => /\ Len(records') = Len(records) + 1
       /\ TimeBearing(records'[Len(records')])
       /\ records'[Len(records')].Time = ZeroTime
       /\ Len(errs') = Len(errs) + 1
       /\ errs'[Len(errs')].Line = Len(lines')
       /\ \E c \in DOMAIN errs'[Len(errs')].Err : errs'[Len(errs')].Err[c] = errNoDate
       /\ p'.date = p.date /\ p'.prevTime = p.prevTime
       /\ records'[Len(records')].type = "BRecord"
              => bRecords' = Append(bRecords, records'[Len(records')])
       /\ records'[Len(records')].type = "KRecord"
              => kRecords' = Append(kRecords, records'[Len(records')])

C12_NoDateBestEffort == [][C12_NoDateStep]_vars

\* C12 witness: a B line and a K line were parsed with no date set, each
\* giving a record with the zero Time in its typed list and a "no date" error.
C12_Witness ==
    /\ Len(records) = 2 /\ Len(errs) = 2
    /\ records[1].type = "BRecord" /\ records[1].Time = ZeroTime
    /\ records[2].type = "KRecord" /\ records[2].Time = ZeroTime
    /\ bRecords = <<records[1]>> /\ kRecords = <<records[2]>>
    /\ errs[1].Err = <<errNoDate>> /\ errs[2].Err = <<errNoDate>>
    /\ IsZero(p.date) /\ IsZero(p.prevTime)

----------------------------------------------------------------------------
(* Inputs: addition declarations and the data records that use them.       *)

MaxAddLines == 3

AddLines ==
    {Bytes(s) : s \in {"I013638TAS", "I013637FXA", "I013636LAD", "I023636AAA3736BBB",
                       "J010810WDI", "J010809WSP", "J020707AAA0809BBB",
                       "M010810WDI", "M010809WSP",
                       "B1501444708879N00832146EA0092900941123",
                       "B1501444708879N00832146EA0092900941",
                       "K150144123", "K150144", "N150144123"}}

NextAdd ==
    \/ (Len(lines) < MaxAddLines /\ \E line \in AddLines : ParseLine(line))
    \/ Return
    \/ ScanErr

SpecAdd == Init /\ [][NextAdd]_vars

----------------------------------------------------------------------------
(* Additions: C4, C5, C6.                                                  *)

\* the declaration record type of a data record type
DeclType(type) ==
    CASE type = "BRecord" -> "IRecord"
      [] type = "KRecord" -> "JRecord"
      [] type = "NRecord" -> "MRecord"

IsDataRecord(r) == r.type \in {"BRecord", "KRecord", "NRecord"}

\* the indices before n of the accepted declarations for the data record at n
DeclsBefore(n) ==
    {i \in 1..(n - 1) : records[i].type = DeclType(records[n].type)}

\* the index of the most recent of them
LastDecl(n) == CHOOSE i \in DeclsBefore(n) : \A j \in DeclsBefore(n) : j <= i

\* the codes of a list of additions
Codes(additions) == {additions[i].TLC : i \in DOMAIN additions}

\* 10 to the power n
Pow10(n) == intPow(10, n)

\* C4: a data record decodes only the additions of the most recent accepted
\* declaration of its kind; nothing of an earlier declaration (codes, LAD and
\* LOD scale factors) has an effect.
C4_DeclarationReplacesTable ==
    \A n \in DOMAIN records :
        (IsDataRecord(records[n]) /\ DeclsBefore(n) # {}) =>
            LET decl == records[LastDecl(n)].Additions
            IN  /\ DOMAIN records[n].Additions \subseteq Codes(decl)
                /\ records[n].type = "BRecord" =>
                       /\ LAD \notin Codes(decl) => records[n].Lat.div = Int64(LatMinDivBase)
                       /\ LOD \notin Codes(decl) => records[n].Lon.div = Int64(LatMinDivBase)

\* what C4 says of K and N records alone
C4_JMDeclarationReplacesTable ==
    \A n \in DOMAIN records :
        (records[n].type \in {"KRecord", "NRecord"} /\ DeclsBefore(n) # {}) =>
            DOMAIN records[n].Additions \subseteq Codes(records[LastDecl(n)].Additions)

\* the line consumed last
LastLine == lines[Len(lines)]

\* the causes reported on the line consumed last
LastLineErr ==
    IF \E e \in DOMAIN errs : errs[e].Line = Len(lines)
    THEN errs[CHOOSE e \in DOMAIN errs : errs[e].Line = Len(lines)].Err
    ELSE <<>>

\* count and triple layout of a declaration line are well formed
WellFormedDecl(line) ==
    Len(line) >= 1 /\ ijmRecordRx(line) /\ Len(line) - 3 = 7 * num(line, 2, 3)

\* the triples of a well-formed declaration line checked against the column rule
CheckedTriples(line) ==
    additionsLoop(line, num(line, 2, 3), 0,
                  IF line[1] = 73 THEN IRecordStartColumn ELSE JRecordStartColumn,
                  <<>>, <<>>)

\* the addition table of the family a declaration letter stands for
TableOf(letter) ==
    CASE letter = 73 -> p.bRecordAdditions
      [] letter = 74 -> p.kRecordAdditions
      [] letter = 77 -> p.nRecordAdditions

\* C5: after a well-formed declaration line with triples that violate the
\* column rule, each violating triple is reported on that line and each triple
\* that satisfies the rule is in the family's addition table.
C5_ValidTriplesInstalled ==
    (Len(lines) >= 1 /\ WellFormedDecl(LastLine) /\ CheckedTriples(LastLine).errs # <<>>) =>
        /\ LastLineErr = CheckedTriples(LastLine).errs
        /\ \A i \in DOMAIN CheckedTriples(LastLine).additions :
               \E j \in DOMAIN TableOf(LastLine[1]) :
                   TableOf(LastLine[1])[j] = CheckedTriples(LastLine).additions[i]

\* the number of causes of a kind about a code in an error
CountCauses(err, kind, tlc) ==
    Cardinality({i \in DOMAIN err : err[i].kind = kind /\ err[i].arg = tlc})

\* C6: a data line after a declaration installing k additions (of k distinct
\* codes) decodes, when every reachable range holds an integer, exactly the
\* additions whose finish column is within the line, each to the integer in
\* its columns, and reports exactly one missing-addition error for each other;
\* with a long enough line that is k entries.
C6_DataLineDecodesDeclared ==
    LET n == Len(records)
    IN  (/\ Len(lines) >= 1 /\ LastLine # <<>>
         /\ n >= 1 /\ IsDataRecord(records[n])
         /\ DeclsBefore(n) # {}) =>
            LET decl  == records[LastDecl(n)].Additions
                reach == {i \in DOMAIN decl : decl[i].FinishColumn <= Len(LastLine)}
                text(i) == Cols(LastLine, decl[i].StartColumn, decl[i].FinishColumn)
            IN  (/\ Cardinality(Codes(decl)) = Len(decl)
                 /\ \A i \in reach : atoi(text(i)).ok) =>
                    /\ DOMAIN records[n].Additions = {decl[i].TLC : i \in reach}
                    /\ \A i \in reach : records[n].Additions[decl[i].TLC] = atoi(text(i)).value
                    /\ Cardinality(DOMAIN records[n].Additions) = Cardinality(reach)
                    /\ \A i \in DOMAIN decl :
                           CountCauses(LastLineErr, "missing addition", decl[i].TLC)
                               = IF i \in reach THEN 0 ELSE 1

\* what C6 says of K and N lines alone
C6_KNLineDecodesDeclared ==
    (Len(records) >= 1 /\ records[Len(records)].type = "BRecord")
        \/ C6_DataLineDecodesDeclared

----------------------------------------------------------------------------
(* Inputs: C lines.                                                        *)

MaxCLines == 3

CLines ==
    {<<>>} \cup
    {Bytes(s) : s \in {"C110524093545000000000502",
                       "C0110231200370000000000-1 Competition task",
                       "C4415173N00604205ET-296-Trainon", "C", "G"}}

NextC ==
    \/ (Len(lines) < MaxCLines /\ \E line \in CLines : ParseLine(line))
    \/ Return
    \/ ScanErr

SpecC == Init /\ [][NextC]_vars

----------------------------------------------------------------------------
(* Scale factors: C14.  Fix lines behind declarations of LAD, LOD and TDS  *)
(* of one, three and fifteen columns.                                      *)

MaxScaleLines == 3

ScaleLines ==
    {Bytes(s) : s \in {"HFDTEDATE:040624,01",
                       "I033636TDS3737LAD3838LOD",
                       "I033638LAD3941LOD4244TDS",
                       "I023650LAD5165LOD",
                       "B1501444708879N00832146EA0092900941456",
                       "B1501454708879S00832146WA009290094112345678901234567890123456789"}}

NextScale ==
    \/ (Len(lines) < MaxScaleLines /\ \E line \in ScaleLines : ParseLine(line))
    \/ Return
    \/ ScanErr

SpecScale == Init /\ [][NextScale]_vars

RECURSIVE divTenFrom(_, _, _)
\* the int a divided by ten, from byte i down: quotient and remainder
divTenFrom(a, i, rem) ==
    IF i = 0 THEN [q |-> <<>>, r |-> rem]
    ELSE [q |-> Append(divTenFrom(a, i - 1, (rem * LimbBase + a[i]) % 10).q,
                       (rem * LimbBase + a[i]) \div 10),
          r |-> divTenFrom(a, i - 1, (rem * LimbBase + a[i]) % 10).r]

RECURSIVE Decimal(_)
\* the decimal digits of an int, without leading zeros (none for 0);
\* a minus sign for a negative int
Decimal(a) ==
    IF a[Int64Limbs] >= 128 THEN <<45>>
    ELSE IF a = Int64(0) THEN <<>>
    ELSE Decimal(divTenFrom(a, Int64Limbs, 0).q) \o <<48 + divTenFrom(a, Int64Limbs, 0).r>>

RECURSIVE StripZeros(_)
\* digits without their leading zeros
StripZeros(digits) ==
    IF digits # <<>> /\ Head(digits) = 48 THEN StripZeros(Tail(digits)) ELSE digits

\* the I records before slot n that declare the code
ScaleDecls(n, code) ==
    {i \in 1..(n - 1) : records[i].type = "IRecord" /\ code \in Codes(records[i].Additions)}

\* the declaration of the code in force at slot n: the last triple with the
\* code in the most recent I record that has one
ScaleDecl(n, code) ==
    LET i == CHOOSE i \in ScaleDecls(n, code) : \A j \in ScaleDecls(n, code) : j <= i
        k == CHOOSE k \in DOMAIN records[i].Additions :
                 /\ records[i].Additions[k].TLC = code
                 /\ \A m \in DOMAIN records[i].Additions :
                        records[i].Additions[m].TLC = code => m <= k
    IN  records[i].Additions[k]

\* the line carries the addition: its columns exist and hold digits
Carries(line, a) == AllDigits(line, a.StartColumn, a.FinishColumn)

\* the digits of 10^n * baseMinutes + addition, for an addition of n digits
TrueMinutes(line, a, first, last) ==
    StripZeros(Cols(line, first, last) \o Cols(line, a.StartColumn, a.FinishColumn))

\* the digits of 60000 * 10^n
TrueDenominator(n) == <<54>> \o [i \in 1..(4 + n) |-> 48]

\* 10^k for 0 <= k <= 9
TenTo(k) == smallInt(intPow(10, k))

\* the coordinate of slot n is degrees + (10^n * baseMinutes + addition) /
\* (60000 * 10^n) when the code is declared and carried, and has the
\* denominator 60000 when the code is not declared
ScaledAsClaimed(n, code, coord, first, last) ==
    IF ScaleDecls(n, code) = {}
    THEN coord.div = Int64(LatMinDivBase)
    ELSE Carries(LastLine, ScaleDecl(n, code)) =>
             \/ /\ Decimal(coord.min) = TrueMinutes(LastLine, ScaleDecl(n, code), first, last)
                /\ Decimal(coord.div) = TrueDenominator(width(ScaleDecl(n, code)))
             \/ /\ coord.min = Int64(0)
                /\ TrueMinutes(LastLine, ScaleDecl(n, code), first, last) = <<>>
                /\ coord.div # Int64(0)

\* the timestamp of slot n has TDS * 10^(9-n) nanoseconds when TDS is
\* declared and carried, and none when TDS is not declared
NanosAsClaimed(n) ==
    IF ScaleDecls(n, TDS) = {}
    THEN records[n].Time.nsec = 0
    ELSE (Carries(LastLine, ScaleDecl(n, TDS)) /\ Stamped(records[n])) =>
             records[n].Time.nsec =
                 atoiShort(Cols(LastLine, ScaleDecl(n, TDS).StartColumn,
                                ScaleDecl(n, TDS).FinishColumn), 0)
                   * TenTo(9 - width(ScaleDecl(n, TDS)))

\* the last line is a fix line and gave a record
FixDecoded ==
    /\ Len(lines) >= 1 /\ LastLine # <<>>
    /\ Len(records) >= 1 /\ records[Len(records)].type = "BRecord"

\* C14: a fix line behind a declaration of LAD (LOD) of n columns, carrying
\* the addition, has the latitude (longitude) degrees + (10^n * baseMinutes
\* + addition) / (60000 * 10^n), negated for S (W); behind a declaration of
\* TDS of n columns its timestamp has TDS * 10^(9-n) nanoseconds; with no
\* declaration the denominators are 60000 and the nanoseconds 0.
C14_ScaledCoordinates ==
    FixDecoded =>
        /\ ScaledAsClaimed(Len(records), LAD, records[Len(records)].Lat, 10, 14)
        /\ records[Len(records)].Lat.deg = num(LastLine, 8, 9)
        /\ records[Len(records)].Lat.neg = (LastLine[15] = 83)
        /\ ScaledAsClaimed(Len(records), LOD, records[Len(records)].Lon, 19, 23)
        /\ records[Len(records)].Lon.deg = num(LastLine, 16, 18)
        /\ records[Len(records)].Lon.neg = (LastLine[24] = 87)
        /\ NanosAsClaimed(Len(records))

\* the scaled minutes and the denominator of the code have at most 18
\* digits, and so are below 2^63
FitsInt(n, code, first, last) ==
    (ScaleDecls(n, code) # {} /\ Carries(LastLine, ScaleDecl(n, code))) =>
        /\ Len(TrueMinutes(LastLine, ScaleDecl(n, code), first, last)) <= 18
        /\ Len(TrueDenominator(width(ScaleDecl(n, code)))) <= 18

\* what C14 says where the scaled numbers are below 10^18
C14_ScaledWithinInt ==
    (/\ FixDecoded
     /\ FitsInt(Len(records), LAD, 10, 14)
     /\ FitsInt(Len(records), LOD, 19, 23)) => C14_ScaledCoordinates

\* a fix line behind a declaration of three columns each has all three scaled
C14_Witness ==
    /\ FixDecoded
    /\ Stamped(records[Len(records)])
    /\ ScaleDecls(Len(records), LAD) # {} /\ width(ScaleDecl(Len(records), LAD)) = 3
    /\ ScaleDecls(Len(records), TDS) # {} /\ width(ScaleDecl(Len(records), TDS)) = 3
    /\ Carries(LastLine, ScaleDecl(Len(records), LAD))
    /\ Carries(LastLine, ScaleDecl(Len(records), TDS))
    /\ records[Len(records)].Lat.div = Int64(60000000)
    /\ records[Len(records)].Time.nsec > 0

----------------------------------------------------------------------------
(* Lines and record slots: C7, C8, C9, C10.                                *)

IsNonEmpty(line) == line # <<>>

\* the non-empty lines consumed so far, in order
NonEmptyLines == SelectSeq(lines, IsNonEmpty)

\* the 1-based position in the input of the k-th non-empty line
LineNumber(k) ==
    CHOOSE i \in DOMAIN lines :
        lines[i] # <<>> /\ Len(SelectSeq(SubSeq(lines, 1, i), IsNonEmpty)) = k

\* the causes reported on line number i
ErrOfLine(i) ==
    IF \E e \in DOMAIN errs : errs[e].Line = i
    THEN errs[CHOOSE e \in DOMAIN errs : errs[e].Line = i].Err
    ELSE <<>>

\* the letter of the lines a record type comes from
RecordLetter(type) ==
    CASE type = "ARecord" -> 65
      [] type = "BRecord" -> 66
      [] type \in {"CRecordDeclaration", "CRecordWaypoint"} -> 67
      [] type = "DRecord" -> 68
      [] type \in {"ERecord", "ERecordWithoutTLC"} -> 69
      [] type = "FRecord" -> 70
      [] type = "GRecord" -> 71
      [] type \in {"HRecord", "HRecordWithInvalidSource", "HFDTERecord"} -> 72
      [] type = "IRecord" -> 73
      [] type = "JRecord" -> 74
      [] type = "KRecord" -> 75
      [] type \in {"LRecord", "LRecordWithoutTLC"} -> 76
      [] type = "MRecord" -> 77
      [] type = "NRecord" -> 78

\* C7: only the first C line of the file may be decoded as a task
\* declaration; any C line is otherwise decoded by the waypoint shape or is a
\* nil slot with an invalid C record error.  (A C line counts as a later one
\* here only when an earlier C line gave a record.)
C7_DeclarationOnlyOnFirstCLine ==
    \A k \in DOMAIN records :
        LET line  == NonEmptyLines[k]
            first == \A j \in 1..(k - 1) :
                         NonEmptyLines[j][1] # 67 \/ records[j] = NilRecord
        IN  line[1] = 67 =>
                IF first /\ cRecordDeclarationRx(line)
                THEN records[k].type = "CRecordDeclaration"
                ELSE IF cRecordWaypointRx(line)
                THEN records[k].type = "CRecordWaypoint"
                ELSE /\ records[k] = NilRecord
                     /\ ErrOfLine(LineNumber(k))[1] = invalidRecordError(67)

\* what C7 says of the first C line alone
C7_FirstCLine ==
    \A k \in DOMAIN records :
        LET line == NonEmptyLines[k]
        IN  (line[1] = 67 /\ \A j \in 1..(k - 1) : NonEmptyLines[j][1] # 67) =>
                IF cRecordDeclarationRx(line) THEN records[k].type = "CRecordDeclaration"
                ELSE IF cRecordWaypointRx(line) THEN records[k].type = "CRecordWaypoint"
                ELSE records[k] = NilRecord

\* a returned document is not nil, holds the slots and errors of all lines
\* and comes with a nil error, unless reading the stream failed
C8_ReturnedDocument ==
    pc = "done" =>
        IF result.err = NoErr
        THEN /\ ~result.igc.nil
             /\ result.igc.Records = records /\ Len(records) = Len(NonEmptyLines)
             /\ result.igc.Errs = errs
        ELSE result.igc.nil /\ result.err = <<readErr>> /\ lines = <<>>

\* C8: no line aborts the parse: at any point the parse has returned or can
\* go on to return, and what it returns is a document with a nil error unless
\* reading the stream failed.
C8_ParseNeverAborts ==
    /\ C8_ReturnedDocument
    /\ pc = "done" \/ ENABLED Return

\* C9: one slot per non-empty line, in line order; empty lines add neither a
\* slot nor an error; a line with a first character outside A..N has a nil
\* slot and an unknown record type error; the single line "X" gives one slot
\* and one error, at line 1.
C9_OneSlotPerNonEmptyLine ==
    /\ Len(records) = Len(NonEmptyLines)
    /\ \A k \in DOMAIN records :
           /\ records[k] # NilRecord => RecordLetter(records[k].type) = NonEmptyLines[k][1]
           /\ NonEmptyLines[k][1] \notin 65..78 =>
                  /\ records[k] = NilRecord
                  /\ ErrOfLine(LineNumber(k)) # <<>>
                  /\ ErrOfLine(LineNumber(k))[1] = unknownRecordTypeError(NonEmptyLines[k][1])
    /\ \A e \in DOMAIN errs : errs[e].Line \in DOMAIN lines /\ lines[errs[e].Line] # <<>>
    /\ lines = <<Bytes("X")>> =>
           /\ records = <<NilRecord>>
           /\ errs = <<Error(1, <<unknownRecordTypeError(88)>>)>>
    /\ (pc = "done" /\ result.err = NoErr) => result.igc.Records = records

\* C9 witness: the single line "X" was parsed and the document returned.
C9_Witness ==
    /\ pc = "done"
    /\ lines = <<Bytes("X")>>
    /\ Len(result.igc.Records) = 1 /\ Len(result.igc.Errs) = 1

\* C9 witness of the other cases: an empty line, then a line of an unknown
\* type, then a line that gives a record.
C9_WitnessEmptyLine ==
    /\ Len(lines) = 3 /\ lines[1] = <<>> /\ lines[2] = <<0>>
    /\ lines[3] # <<>> /\ lines[3][1] = 65
    /\ Len(records) = 2

\* C10: at most one Error per line, in strictly increasing Line order; Line
\* is the 1-based position of the line, empty lines counted; the Error joins
\* the causes of the line: the record's causes first, the invalid character
\* last.
C10_OneErrorPerLine ==
    /\ \A e, f \in DOMAIN errs : e < f => errs[e].Line < errs[f].Line
    /\ \A e \in DOMAIN errs : errs[e].Line \in DOMAIN lines /\ errs[e].Err # <<>>
    /\ \A i \in DOMAIN lines :
           LET line    == lines[i]
               unknown == line[1] \notin 65..78
               inval   == ~p.allowInvalidChars /\ \E c \in DOMAIN line : IsInvalidChar(line[c])
               err     == ErrOfLine(i)
           IN  line # <<>> =>
                   /\ unknown => err # <<>> /\ err[1] = unknownRecordTypeError(line[1])
                   /\ inval => err # <<>> /\ err[Len(err)].kind = "invalid character"
                   /\ (unknown /\ inval) => Len(err) = 2
                   /\ (unknown /\ ~inval) => Len(err) = 1
                   /\ line = Bytes("B1005364607690N00610358EA0000001265*") =>
                          \/ \E h \in 1..(i - 1) : lines[h] # <<>> /\ lines[h][1] = 72
                          \/ err = IF inval THEN <<errNoDate, invalidCharErr(42)>>
                                   ELSE <<errNoDate>>

\* C10 witness: an empty line first, then two failing lines, one of them with
\* two causes; the errors carry the line numbers 2 and 3.
C10_Witness ==
    /\ Len(lines) = 3 /\ lines[1] = <<>>
    /\ Len(errs) = 2 /\ errs[1].Line = 2 /\ errs[2].Line = 3
    /\ Len(errs[1].Err) = 2

----------------------------------------------------------------------------
(* The invalid-character option: C13.                                       *)

\* the causes reported on line number i in the error list es
ErrAt(es, i) ==
    IF \E e \in DOMAIN es : es[e].Line = i
    THEN es[CHOOSE e \in DOMAIN es : es[e].Line = i].Err
    ELSE <<>>

\* the strict error list is the permissive one with an invalid character
\* cause joined to the error of every line that has a byte outside the
\* allowlist
StrictAddsInvalidChar(strict, permissive) ==
    \A i \in DOMAIN lines :
        ErrAt(strict, i) =
            IF lines[i] # <<>> /\ \E c \in DOMAIN lines[i] : IsInvalidChar(lines[i][c])
            THEN Append(ErrAt(permissive, i),
                        invalidCharErr(lines[i][invalidCharsRx(lines[i])]))
            ELSE ErrAt(permissive, i)

\* this parse and the parse d of the same lines under the other setting of
\* the option decode the same records
SameDecoding(d) ==
    /\ records = d.records
    /\ bRecords = d.bRecords
    /\ kRecords = d.kRecords
    /\ hRecordsByTLC = d.hRecordsByTLC
    /\ (pc = "hang") = d.hang
    /\ IF p.allowInvalidChars THEN StrictAddsInvalidChar(d.errs, errs)
       ELSE StrictAddsInvalidChar(errs, d.errs)

\* C13: the parse of the same lines with the other setting of the
\* invalid-character option has the same Records, BRecords, KRecords and
\* HRecordsByTLC; with the option disabled every line with a byte outside the
\* allowlist has an invalid character cause added to its error, and the other
\* lines have the error of the permissive parse.
C13_OptionDoesNotAffectDecoding ==
    SameDecoding(parseLines(~p.allowInvalidChars, lines))

\* C13 witness: a strict parse of three lines that gave a B record, a G
\* record with an invalid character and a header, where the permissive
\* parse reports nothing on the G line.
C13_Witness ==
    /\ ~p.allowInvalidChars
    /\ Len(lines) = 3
    /\ lines[1] = Bytes("B1005364607690N00610358EA0000001265*")
    /\ lines[2] = Bytes("G*")
    /\ lines[3] = Bytes("HFDTE010203")
    /\ Len(bRecords) = 1 /\ records[2].type = "GRecord"
    /\ ErrAt(errs, 1) = <<errNoDate, invalidCharErr(42)>>
    /\ ErrAt(errs, 2) = <<invalidCharErr(42)>>
    /\ ErrAt(parseLines(TRUE, lines).errs, 2) = <<>>

----------------------------------------------------------------------------
(* Inputs of Parse: streams of line feeds, carriage returns, a line of an   *)
(* unknown type and a valid line.                                           *)

MaxPieces == 4

Pieces == {<<LF>>, <<CR>>, Bytes("X"), Bytes("G")}

RECURSIVE Streams(_)
Streams(n) ==
    IF n = 0 THEN {<<>>}
    ELSE Streams(n - 1) \cup {s \o q : s \in Streams(n - 1), q \in Pieces}

\* the state after newParser(options...) and bufio.NewScanner(r)
InitParse ==
    /\ pc = "scan"
    /\ lines = <<>>
    /\ \E allowInvalidChars \in BOOLEAN : p = newParser(allowInvalidChars)
    /\ records = <<>>
    /\ bRecords = <<>>
    /\ hRecordsByTLC = <<>>
    /\ kRecords = <<>>
    /\ errs = <<>>
    /\ result = [igc |-> NilIGC, err |-> NoErr]
    /\ stream \in Streams(MaxPieces)
    /\ scanner = [buf |-> <<>>, rest |-> stream, eof |-> FALSE, more |-> FALSE]
    /\ tokens = <<>>
    /\ manufacturers = [init |-> initManufacturers, found |-> NoLookup]
    /\ command = NoCommand

NextParse ==
    \/ \E n \in 1..MaxPieces : Read(n)
    \/ ReadEOF
    \/ Scan
    \/ ParseToken
    \/ ReturnParsed
    \/ ScanErr

SpecParse == InitParse /\ [][NextParse]_vars

RECURSIVE SplitLines(_)
\* the physical lines of a stream: split at each line feed, the terminal
\* carriage returns of each line removed, a last unterminated fragment kept
SplitLines(data) ==
    IF data = <<>> THEN <<>>
    ELSE IF IndexByte(data, LF) = 0 THEN <<SubSeq(data, 1, lastNonCR(data))>>
    ELSE <<SubSeq(data, 1, lastNonCR(SubSeq(data, 1, IndexByte(data, LF) - 1)))>>
         \o SplitLines(SubSeq(data, IndexByte(data, LF) + 1, Len(data)))

\* the positions of the non-empty lines among ls, in order
NonEmptyPositions(ls) == SelectSeq([i \in DOMAIN ls |-> i], LAMBDA i : ls[i] # <<>>)

\* C11: when Parse returns a document, the lines it decoded are the non-empty
\* physical lines of the stream, in order, and every error carries the
\* physical line number of its line (so the document is that of ParseLines
\* on the physical lines).
C11_ParseKeepsPhysicalLines ==
    (pc = "done" /\ result.err = NoErr) =>
        /\ lines = SelectSeq(SplitLines(stream), IsNonEmpty)
        /\ \A e \in DOMAIN errs :
               /\ errs[e].Line \in DOMAIN NonEmptyPositions(SplitLines(stream))
               /\ errs[e].Line = NonEmptyPositions(SplitLines(stream))[errs[e].Line]

\* C11, the part that holds: the lines Parse decodes are the first non-empty
\* physical lines of the stream, in order, none of them ending with a
\* carriage return.
C11_TokensArePhysicalLines ==
    /\ \A k \in DOMAIN tokens :
           tokens[k] # <<>> /\ tokens[k][Len(tokens[k])] # CR
    /\ \E n \in 0..Len(SelectSeq(SplitLines(stream), IsNonEmpty)) :
           tokens = SubSeq(SelectSeq(SplitLines(stream), IsNonEmpty), 1, n)

----------------------------------------------------------------------------
(* The manufacturer registry: C15.  init() builds the two maps entry by    *)
(* entry; afterwards codes are looked up in them, registered codes and     *)
(* others.                                                                 *)

\* the parser is not running
ParserIdle ==
    /\ pc = "done"
    /\ lines = <<>>
    /\ p = newParser(FALSE)
    /\ records = <<>>
    /\ bRecords = <<>>
    /\ hRecordsByTLC = <<>>
    /\ kRecords = <<>>
    /\ errs = <<>>
    /\ result = [igc |-> NilIGC, err |-> NoErr]
    /\ stream = <<>>
    /\ scanner = NoScanner
    /\ tokens = <<>>

InitRegistry ==
    /\ ParserIdle
    /\ manufacturers = [init |-> NoManufacturers, found |-> NoLookup]
    /\ command = NoCommand

\* one iteration of a loop of init()
Register ==
    /\ manufacturers.init.stage \notin {"done", "panic"}
    /\ manufacturers' = [manufacturers EXCEPT !.init = registerManufacturer(@)]
    /\ UNCHANGED parserVars
    /\ UNCHANGED command

\* the codes looked up: those of both tables, and some of neither
LookupCodes ==
    {ApprovedManufacturers[i].TLC : i \in DOMAIN ApprovedManufacturers}
      \cup {NonApprovedManufacturers[i].TLC : i \in DOMAIN NonApprovedManufacturers}
      \cup {Bytes("XXX"), Bytes("AAA"), Bytes("X"), <<>>}

\* ManufacturersByTLC[tlc]
Lookup(tlc) ==
    /\ manufacturers.init.stage = "done"
    /\ manufacturers' = [manufacturers EXCEPT !.found =
           lookup("ManufacturersByTLC", manufacturers.init.ManufacturersByTLC, tlc)]
    /\ UNCHANGED parserVars
    /\ UNCHANGED command

\* ApprovedManufacturersByTLC[tlc]
LookupApproved(tlc) ==
    /\ manufacturers.init.stage = "done"
    /\ manufacturers' = [manufacturers EXCEPT !.found =
           lookup("ApprovedManufacturersByTLC",
                  manufacturers.init.ApprovedManufacturersByTLC, tlc)]
    /\ UNCHANGED parserVars
    /\ UNCHANGED command

NextRegistry ==
    \/ Register
    \/ \E tlc \in LookupCodes : Lookup(tlc)
    \/ \E tlc \in LookupCodes : LookupApproved(tlc)

SpecRegistry == InitRegistry /\ [][NextRegistry]_vars

\* the codes of a table
TableCodes(table) == {table[i].TLC : i \in DOMAIN table}

\* the entry found is approved exactly when it is of the approved table
ApprovedIffApprovedTable(ref) ==
    Approved(Manufacturer(ref)) <=> ref.table = "ApprovedManufacturers"

\* C15: once init() has run, every entry of ManufacturersByTLC is approved
\* exactly when it comes from the approved table and not approved exactly
\* when it comes from the non-approved table; each code of the two tables
\* maps to the one entry with that code, which carries the code and its
\* name; no code is in both tables; and a lookup gives that entry.
C15_RegistryApproval ==
    manufacturers.init.stage = "done" =>
        LET byTLC == manufacturers.init.ManufacturersByTLC
        IN  /\ DOMAIN byTLC = TableCodes(ApprovedManufacturers)
                                \cup TableCodes(NonApprovedManufacturers)
            /\ TableCodes(ApprovedManufacturers) \cap TableCodes(NonApprovedManufacturers) = {}
            /\ DOMAIN manufacturers.init.ApprovedManufacturersByTLC
                   = TableCodes(ApprovedManufacturers)
            /\ \A tlc \in DOMAIN byTLC :
                   /\ byTLC[tlc].table \in {"ApprovedManufacturers", "NonApprovedManufacturers"}
                   /\ byTLC[tlc].index \in DOMAIN ManufacturerTable(byTLC[tlc].table)
                   /\ Manufacturer(byTLC[tlc]).TLC = tlc
                   /\ ApprovedIffApprovedTable(byTLC[tlc])
                   /\ \A table \in {"ApprovedManufacturers", "NonApprovedManufacturers"} :
                          \A i \in DOMAIN ManufacturerTable(table) :
                              ManufacturerTable(table)[i].TLC = tlc
                                  => ManufacturerRef(table, i) = byTLC[tlc]
            /\ (manufacturers.found.map = "ManufacturersByTLC" /\ manufacturers.found.ok) =>
                   /\ Manufacturer(manufacturers.found.ref).TLC = manufacturers.found.TLC
                   /\ ApprovedIffApprovedTable(manufacturers.found.ref)

\* what the parser takes the approved codes to be is what init() built
C15_ParserSeesRegistry ==
    /\ initManufacturers.stage = "done"
    /\ DOMAIN initManufacturers.ApprovedManufacturersByTLC = ApprovedManufacturersByTLC
    /\ manufacturers.init.stage = "done" => manufacturers.init = initManufacturers

\* XAH has been looked up: Ascent, of the non-approved table, not approved
C15_Witness ==
    /\ manufacturers.init.stage = "done"
    /\ manufacturers.found.map = "ManufacturersByTLC"
    /\ manufacturers.found.TLC = Bytes("XAH")
    /\ manufacturers.found.ok
    /\ Manufacturer(manufacturers.found.ref) = [TLC |-> Bytes("XAH"), SCC |-> 88, Name |-> "Ascent"]
    /\ ~Approved(Manufacturer(manufacturers.found.ref))

----------------------------------------------------------------------------
(* validate-igc: C16.  main validates the files of its command line one    *)
(* after the other; what the server answers for a file is any status.      *)

MaxFiles == 4

InitCommand ==
    /\ ParserIdle
    /\ manufacturers = [init |-> initManufacturers, found |-> NoLookup]
    /\ command = NoCommand

\* one iteration of main's loop: validate gave the status
ValidateFile(status) ==
    /\ command.stage = "loop"
    /\ Len(command.statuses) < MaxFiles
    /\ command' = [command EXCEPT !.statuses = Append(@, status),
                                  !.worstStatus = worstAfter(@, status)]
    /\ UNCHANGED parserVars
    /\ UNCHANGED manufacturers

\* os.Exit(int(worstStatus)), the files all done
Exit ==
    /\ command.stage = "loop"
    /\ command' = [command EXCEPT !.stage = "exited", !.exit = command.worstStatus]
    /\ UNCHANGED parserVars
    /\ UNCHANGED manufacturers

NextCommand ==
    \/ \E status \in {StatusUnknown, StatusValid, StatusInvalid} : ValidateFile(status)
    \/ Exit

SpecCommand == InitCommand /\ [][NextCommand]_vars

\* the exit code the documentation gives an outcome
ExitCodeOf(status) ==
    CASE status = StatusValid -> 0
      [] status = StatusInvalid -> 1
      [] status = StatusUnknown -> 2

\* the worst of the exit codes of the outcomes
WorstExitCode(statuses) ==
    CHOOSE c \in 0..2 :
        /\ \E i \in DOMAIN statuses : ExitCodeOf(statuses[i]) = c
        /\ \A i \in DOMAIN statuses : ExitCodeOf(statuses[i]) <= c

\* C16: validate-igc exits with 0 if the file is valid, 1 if it is invalid
\* and 2 if it could not be validated; with several files, with the worst
\* of these over the files.
C16_ExitCodeIsWorstOutcome ==
    (command.stage = "exited" /\ command.statuses # <<>>) =>
        command.exit = WorstExitCode(command.statuses)

\* the exit code main does give: 2 if a file could not be validated, and 1
\* otherwise, valid or not
C16_ExitCodeGiven ==
    command.stage = "exited" =>
        command.exit = IF \E i \in DOMAIN command.statuses :
                              command.statuses[i] = StatusUnknown
                       THEN 2 ELSE 1

----------------------------------------------------------------------------
(* Determinism: C17.  The parse that built the state is compared with a    *)
(* second parse of the same lines under the same option, from a fresh      *)
(* parser.                                                                 *)

\* the document d of a parse is the one of this parse, the parser it leaves
\* behind included, and is what was returned if this parse has returned
SameDocument(d) ==
    /\ records = d.records
    /\ bRecords = d.bRecords
    /\ kRecords = d.kRecords
    /\ hRecordsByTLC = d.hRecordsByTLC
    /\ errs = d.errs
    /\ p = d.p
    /\ (pc = "hang") = d.hang
    /\ (pc = "done" /\ ~result.igc.nil) =>
           result = [igc |-> [Records |-> d.records, Errs |-> d.errs,
                              HRecordsByTLC |-> d.hRecordsByTLC,
                              BRecords |-> d.bRecords, KRecords |-> d.kRecords,
                              nil |-> FALSE],
                     err |-> NoErr]

----------------------------------------------------------------------------
(* What a line may change of the parser: C18.  Date headers, fixes either  *)
(* side of midnight, the three declarations, and lines that give no        *)
(* record: a malformed one of each of these and an unknown record type.    *)

MaxFrameLines == 3

FrameLines ==
    {Bytes(s) : s \in {"HFDTE010203", "HFDTE0102",
                       "B2359594708879N00832146EA0092900941",
                       "B0000014708879N00832146EA0092900941", "B000001",
                       "I013636LAD", "I0136", "J010810WDI", "J01",
                       "M010809WSP", "M0108", "X"}}

NextFrame ==
    \/ (Len(lines) < MaxFrameLines /\ \E line \in FrameLines : ParseLine(line))
    \/ Return
    \/ ScanErr

SpecFrame == Init /\ [][NextFrame]_vars

\* the table of B record additions, its index by code and what is derived
\* from it
BTables(q) ==
    <<q.bRecordAdditions, q.bRecordsAdditionsByTLC,
      q.ladBRecordAddition, q.latMinMul, q.latMinDiv,
      q.lodBRecordAddition, q.lonMinMul, q.lonMinDiv,
      q.tdsBRecordAddition, q.fracSecondMul>>

\* the date d2 is the date d1 a whole number of days later
DayAdvance(d1, d2) == d2.day > d1.day /\ d2.sec = d1.sec /\ d2.nsec = d1.nsec

\* what the step that gave the record r may have changed of the parser
FrameOf(r) ==
    /\ BTables(p') # BTables(p) => r.type = "IRecord"
    /\ p'.kRecordAdditions # p.kRecordAdditions => r.type = "JRecord"
    /\ p'.nRecordAdditions # p.nRecordAdditions => r.type = "MRecord"
    /\ p'.date # p.date =>
           \/ r.type = "HFDTERecord"
           \/ TimeBearing(r) /\ DayAdvance(p.date, p'.date)
    /\ p'.prevTime # p.prevTime => TimeBearing(r)
    /\ r = NilRecord => p' = p

C18_FrameStep ==
    /\ Len(records') = Len(records) => p' = p
    /\ Len(records') = Len(records) + 1 => FrameOf(records'[Len(records')])

\* C18: the B, K and N addition tables and the scale factors change only on
\* a line that gives an I, J or M record; the date changes only on a line
\* that gives a date header, or by whole days on a line with a timestamp;
\* a line that gives no record changes nothing of the parser.
C18_StateChangesOnlyThroughRecords == [][C18_FrameStep]_vars

\* a line gave no record after a date header and a declaration were taken
C18_Witness ==
    /\ Len(records) = 3
    /\ records[1].type = "HFDTERecord"
    /\ records[2].type = "IRecord"
    /\ records[3] = NilRecord
    /\ p.date = records[1].Date
    /\ p.bRecordAdditions = records[2].Additions
    /\ p.latMinMul = Int64(10)

\* a fix before midnight and one after: the date is a day on
C18_WitnessDayAdvance ==
    /\ Len(records) = 3
    /\ records[1].type = "HFDTERecord"
    /\ records[2].type = "BRecord" /\ records[3].type = "BRecord"
    /\ DayAdvance(records[1].Date, p.date)

----------------------------------------------------------------------------
(* The lenient fallbacks and Valid: C19.  A slot of Records is a Record    *)
(* interface.  Where the line's parser returns a pointer to its record     *)
(* type (A, B, D, F, G, I, J, K, M, N), a failed line leaves a nil pointer *)
(* of that type in the slot; where it returns a Record (C, E, H, L), and   *)
(* for an unknown record type, the slot is the nil interface.              *)

\* the first bytes of the lines whose parser returns a pointer type
PointerParsers == {65, 66, 68, 70, 71, 73, 74, 75, 77, 78}

\* r.Valid() on a record, or on a nil pointer to a record type
Valid(r) ==
    r.type \notin {"nil", "ERecordWithoutTLC", "HRecordWithInvalidSource",
                   "LRecordWithoutTLC"}

\* records[i].Valid() on the slot the line gave: "true", "false", or
\* "panic" where the slot is the nil interface
slotValid(line, r) ==
    IF r = NilRecord /\ line[1] \notin PointerParsers THEN "panic"
    ELSE IF Valid(r) THEN "true" ELSE "false"

MaxLenientLines == 3

LenientLines ==
    {Bytes(s) : s \in {"HFDTE010203",
                       "E120000PEV", "E120000pev", "E120001", "E1200",
                       "LXXXlog", "LCU::HP", "L",
                       "HFPLTPILOT:Bob", "HXPLTPILOT:Bob", "HXDTE010203", "HxPLT",
                       "A", "X"}}

NextLenient ==
    \/ (Len(lines) < MaxLenientLines /\ \E line \in LenientLines : ParseLine(line))
    \/ Return
    \/ ScanErr

SpecLenient == Init /\ [][NextLenient]_vars

\* the last line was not empty and was taken
LastDecoded == Len(lines) >= 1 /\ LastLine # <<>> /\ Len(records) >= 1 /\ pc # "hang"

\* the slot of the last line
LastRecord == records[Len(records)]

\* the last line has no structural error
NoStructuralError ==
    \A i \in DOMAIN LastLineErr : LastLineErr[i].kind # "invalid record"

\* an E line with a timestamp of six digits not followed by three
\* upper-case letters
EventWithoutCode(line) ==
    line[1] = 69 /\ AllDigits(line, 2, 7) /\ ~AllUpper(line, 8, 10)

\* an L line not starting with three upper-case letters
LogWithoutTag(line) == line[1] = 76 /\ ~AllUpper(line, 2, 4)

\* an H line with an upper-case source other than F, O, P, and a code of
\* three digits or upper-case letters
HeaderWithInvalidSource(line) ==
    /\ line[1] = 72 /\ Len(line) >= 5
    /\ IsUpper(line[2]) /\ line[2] \notin {70, 79, 80}
    /\ \A i \in 3..5 : IsAlnumUpper(line[i])

\* the three fallbacks give their record, with the text kept, and no
\* structural error; Valid() is false for it
C19_FallbacksGiveInvalidRecords ==
    LastDecoded =>
        /\ EventWithoutCode(LastLine) =>
               /\ LastRecord.type = "ERecordWithoutTLC"
               /\ LastRecord.Text = Cols(LastLine, 8, Len(LastLine))
               /\ NoStructuralError
               /\ slotValid(LastLine, LastRecord) = "false"
        /\ LogWithoutTag(LastLine) =>
               /\ LastRecord.type = "LRecordWithoutTLC"
               /\ LastRecord.Text = Cols(LastLine, 2, Len(LastLine))
               /\ NoStructuralError
               /\ slotValid(LastLine, LastRecord) = "false"
        /\ HeaderWithInvalidSource(LastLine) =>
               /\ LastRecord.type = "HRecordWithInvalidSource"
               /\ LastRecord.Source = LastLine[2]
               /\ LastRecord.TLC = Cols(LastLine, 3, 5)
               /\ LastRecord.LongName = hLongName(LastLine)
               /\ LastRecord.Value = hValue(LastLine)
               /\ NoStructuralError
               /\ slotValid(LastLine, LastRecord) = "false"
        /\ (LastRecord # NilRecord
            /\ ~EventWithoutCode(LastLine) /\ ~LogWithoutTag(LastLine)
            /\ ~HeaderWithInvalidSource(LastLine)) =>
               slotValid(LastLine, LastRecord) = "true"

C19_Witness ==
    /\ Len(records) = 3
    /\ records[1].type = "ERecordWithoutTLC"
    /\ records[2].type = "LRecordWithoutTLC"
    /\ records[3].type = "HRecordWithInvalidSource"
    /\ records[3].Value = Bytes("Bob")

----------------------------------------------------------------------------
(* The A record: C20.                                                      *)

MaxALines == 2

ALines ==
    {Bytes(s) : s \in {"AFLY05094-extra", "AFLY05094", "AFLY-a-b", "AFLY-", "AFLY",
                       "ALXV7QX-", "AXCT-abc-def", "AXXX123", "AZZZ1-2",
                       "A", "AFL", "Aab", "AfLY1-2"}}

NextA ==
    \/ (Len(lines) < MaxALines /\ \E line \in ALines : ParseLine(line))
    \/ Return
    \/ ScanErr

SpecA == Init /\ [][NextA]_vars

\* the code is the TLC of an entry of the table of approved manufacturers
InApprovedTable(code) ==
    \E i \in DOMAIN ApprovedManufacturers : ApprovedManufacturers[i].TLC = code

\* before and after split rest at its first hyphen; without a hyphen
\* before is rest and after is empty
SplitAtFirstHyphen(rest, before, after) ==
    IF \E i \in DOMAIN rest : rest[i] = 45
    THEN /\ rest = before \o <<45>> \o after
         /\ \A i \in DOMAIN before : before[i] # 45
    ELSE before = rest /\ after = <<>>

\* C20: an A line with three upper-case letters gives an A record whose
\* remainder is split at its first hyphen into UniqueFlightRecorderID and
\* AdditionalData when the code is in the approved table, and is all
\* UniqueFlightRecorderID otherwise; an A line without three upper-case
\* letters gives a nil slot and an 'invalid A record' error.
C20_ARecordSplit ==
    (LastDecoded /\ LastLine[1] = 65) =>
        IF Len(LastLine) >= 4 /\ AllUpper(LastLine, 2, 4)
        THEN /\ LastRecord.type = "ARecord"
             /\ LastRecord.ManufacturerID = Cols(LastLine, 2, 4)
             /\ LastLineErr = <<>>
             /\ IF InApprovedTable(Cols(LastLine, 2, 4))
                THEN SplitAtFirstHyphen(Cols(LastLine, 5, Len(LastLine)),
                                        LastRecord.UniqueFlightRecorderID,
                                        LastRecord.AdditionalData)
                ELSE /\ LastRecord.UniqueFlightRecorderID = Cols(LastLine, 5, Len(LastLine))
                     /\ LastRecord.AdditionalData = <<>>
        ELSE /\ LastRecord = NilRecord
             /\ LastLineErr = <<invalidRecordError(65)>>

\* an approved code split at the first of two hyphens, then a code that is
\* not approved keeping its hyphens
C20_Witness ==
    /\ Len(records) = 2
    /\ lines = <<Bytes("AFLY-a-b"), Bytes("AXCT-abc-def")>>
    /\ records[1].UniqueFlightRecorderID = <<>>
    /\ records[1].AdditionalData = Bytes("a-b")
    /\ records[2].UniqueFlightRecorderID = Bytes("-abc-def")
    /\ records[2].AdditionalData = <<>>

\* an A line without three upper-case letters
C20_WitnessInvalid ==
    /\ Len(records) = 1 /\ lines = <<Bytes("AfLY1-2")>>
    /\ records[1] = NilRecord /\ Len(errs) = 1

----------------------------------------------------------------------------
(* The headers by code: C21, and the date header that is not one: C28.     *)

MaxHeaderLines == 3

HeaderLines ==
    {Bytes(s) : s \in {"HFDTE010203", "HFDTEDATE:020203,01", "HFDTE:bad", "HFDTEDATE:0203",
                       "HFDTE", "HFPLTPILOT:Bob", "HOPLTPILOT:Eve", "HXPLTPILOT:Mal", "HXDTE030303",
                       "HxPLT", "HFFXA035",
                       "B2359594708879N00832146EA0092900941",
                       "B0000014708879N00832146EA0092900941"}}

NextHeader ==
    \/ (Len(lines) < MaxHeaderLines /\ \E line \in HeaderLines : ParseLine(line))
    \/ Return
    \/ ScanErr

SpecHeader == Init /\ [][NextHeader]_vars

\* the record is a generic header or a date header
IsHeader(r) == r.type \in {"HRecord", "HFDTERecord"}

\* the HRecord of a generic header or of a date header
HeaderOf(r) == IF r.type = "HFDTERecord" THEN r.HRecord ELSE r

\* the slots holding a generic header or a date header with code c
HeaderSlots(c) == {i \in DOMAIN records : IsHeader(records[i]) /\ HeaderOf(records[i]).TLC = c}

\* the greatest element of a non-empty set of numbers
Greatest(S) == CHOOSE i \in S : \A j \in S : j <= i

\* the map holds, for each code, the header of the last slot with that code
LastHeaderByCode(map) ==
    /\ DOMAIN map = {HeaderOf(records[i]).TLC : i \in {j \in DOMAIN records : IsHeader(records[j])}}
    /\ \A c \in DOMAIN map : map[c] = HeaderOf(records[Greatest(HeaderSlots(c))])

\* C21: HRecordsByTLC maps each header code to the header record of the last
\* line that gave a non-nil generic header or date header with that code;
\* headers with invalid source and nil H slots never enter or change it.
C21_HRecordsByTLCLastHeader ==
    /\ pc # "hang" => LastHeaderByCode(hRecordsByTLC)
    /\ (pc = "done" /\ ~result.igc.nil) => LastHeaderByCode(result.igc.HRecordsByTLC)

\* a date header replaced under its code by a generic DTE header with an
\* error, then a header with invalid source and the same code
C21_Witness ==
    /\ pc = "done"
    /\ lines = <<Bytes("HFDTE010203"), Bytes("HFDTE:bad"), Bytes("HXDTE030303")>>
    /\ DOMAIN result.igc.HRecordsByTLC = {Bytes("DTE")}
    /\ result.igc.HRecordsByTLC[Bytes("DTE")].Value = Bytes("bad")

----------------------------------------------------------------------------
(* Timestamp reconstruction on records that are not valid otherwise: C22.  *)

MaxChronoLines == 4

ChronoLines ==
    {Bytes(s) : s \in {"HFDTE010203", "J010810WDI",
                       "B2359594708879N00832146EA0092900941",
                       "E000001pev", "F000002", "K000003", "N000004*", "B000005"}}

NextChrono ==
    \/ (Len(lines) < MaxChronoLines /\ \E line \in ChronoLines : ParseLine(line))
    \/ Return
    \/ ScanErr

SpecChrono == Init /\ [][NextChrono]_vars

\* the line of this step
StepLine == lines'[Len(lines')]

\* the slot of this step
StepRecord == records'[Len(records')]

\* this step parses a line of a time-bearing shape while a date is set
ChronoStep ==
    /\ Len(lines') = Len(lines) + 1
    /\ ~IsZero(p.date)
    /\ TimeShaped(StepLine)

\* whatever else the line's record lacks, it is stamped against the
\* watermark, the watermark becomes its stamp, and the date moves on exactly
\* when the time of day on the current date is before the watermark
C22_ChronoStep ==
    ChronoStep =>
        /\ Len(records') = Len(records) + 1
        /\ TimeBearing(StepRecord)
        /\ StepRecord.Time # ZeroTime
        /\ ~Before(StepRecord.Time, p.prevTime)
        /\ p'.prevTime = StepRecord.Time
        /\ p'.date.day >= p.date.day /\ p'.date.sec = 0 /\ p'.date.nsec = 0
        /\ p'.date.day > p.date.day <=> Before(Add(p.date, TimeOfDay(StepLine), 0), p.prevTime)
        /\ StepRecord.Time = Add(p'.date, TimeOfDay(StepLine), 0)

\* C22: once a date is set, every B, E, F, K and N line of a time-bearing
\* shape is stamped and updates the watermark (and, on rollover, the date),
\* whether or not its record is valid otherwise, so the lines after it are
\* stamped against it.
C22_ReconstructionOnEveryTimeLine == [][C22_ChronoStep]_vars

\* an E record without code rolls the date over, and the N line after it,
\* which has an invalid character, is stamped on the new date
C22_Witness ==
    /\ Len(records) = 4
    /\ records[1].type = "HFDTERecord"
    /\ records[2].type = "BRecord" /\ records[2].Time.day = records[1].Date.day
    /\ records[3].type = "ERecordWithoutTLC"
    /\ records[3].Time = [day |-> records[1].Date.day + 1, sec |-> 1, nsec |-> 0]
    /\ records[4].type = "NRecord"
    /\ records[4].Time = [day |-> records[1].Date.day + 1, sec |-> 4, nsec |-> 0]
    /\ Len(errs) = 1 /\ errs[1].Line = 4
    /\ p.date.day = records[1].Date.day + 1
    /\ p.prevTime = records[4].Time

\* a K line lacking its declared addition moves the watermark
C22_WitnessMissingAddition ==
    /\ Len(records) = 3
    /\ records[1].type = "HFDTERecord" /\ records[2].type = "JRecord"
    /\ records[3].type = "KRecord"
    /\ \E e \in DOMAIN errs : errs[e].Line = 3 /\ errs[e].Err[1].kind = "missing addition"
    /\ p.prevTime = [day |-> records[1].Date.day, sec |-> 3, nsec |-> 0]

----------------------------------------------------------------------------
(* The reserved characters: C23.  Each line is a G record of one character *)
(* or of one multi-byte sequence.                                          *)

CharLines ==
    {<<71, b>> : b \in 0..255}
        \cup {<<71, 195, 169>>, <<71, 226, 130, 172>>, <<71, 240, 159, 152, 128>>,
              <<71, 195>>, <<71, 65, 128, 66>>, <<71, 237, 160, 128>>}

NextChars ==
    \/ (lines = <<>> /\ \E line \in CharLines : ParseLine(line))
    \/ Return
    \/ ScanErr

SpecChars == Init /\ [][NextChars]_vars

\* 0x20, 0x22-0x23, 0x25-0x29, 0x2B-0x5B, 0x5D, 0x5F-0x7D
Allowlist == {32} \cup (34..35) \cup (37..41) \cup (43..91) \cup {93} \cup (95..125)

\* the line's error has an invalid character cause
FlaggedLine ==
    \E c \in DOMAIN LastLineErr : LastLineErr[c].kind = "invalid character"

\* C23: the reserved-character check flags a byte exactly when it lies
\* outside the allowlist: CR, LF, '!', '$', '*', '\', '^', '~' and every byte
\* from 0x7E to 0xFF are invalid, and space, digits, letters and the other
\* punctuation of the allowlist are valid.
C23_ReservedCharacters ==
    /\ \A c \in 0..255 : invalidCharsRx(stringOfByte(c)) # 0 <=> c \notin Allowlist
    /\ {13, 10, 33, 36, 42, 92, 94, 126} \cup (126..255) \subseteq (0..255) \ Allowlist
    /\ {32} \cup (48..57) \cup (65..90) \cup (97..122) \subseteq Allowlist
    /\ (Len(lines) = 1 /\ ~p.allowInvalidChars) =>
           /\ FlaggedLine <=> \E i \in 2..Len(LastLine) : LastLine[i] \notin Allowlist
           /\ FlaggedLine =>
                  /\ LastLineErr[Len(LastLineErr)].arg[1] \notin Allowlist
                  /\ \E i \in 2..Len(LastLine) :
                         /\ LastLine[i] = LastLineErr[Len(LastLineErr)].arg[1]
                         /\ \A j \in 2..(i - 1) : LastLine[j] \in Allowlist

\* a line with '~' was flagged under the strict option
C23_Witness ==
    /\ lines = <<<<71, 126>>>> /\ ~p.allowInvalidChars
    /\ Len(errs) = 1 /\ errs[1].Err = <<invalidCharErr(126)>>

\* a line with '}' was not flagged
C23_WitnessValid ==
    /\ lines = <<<<71, 125>>>> /\ ~p.allowInvalidChars
    /\ Len(records) = 1 /\ errs = <<>>

----------------------------------------------------------------------------
(* The declarations of additions: C24.                                     *)

MaxDeclLines == 2

DeclLines ==
    {Bytes(s) : s \in {"I", "I01", "I0136", "I00", "I013636aaa", "I023636AAA",
                       "I013638FXA", "I023638FXA3940SIU", "I013535AAA", "I013635AAA",
                       "I013534AAA", "I023636AAA3736BBB", "I023737AAA3636BBB",
                       "I033636AAA3838BBB3737CCC", "I033637AAA3637BBB3838CCC",
                       "J", "J020810WDI1113WSP", "J013638FXA", "J020807AAA0808BBB",
                       "M00", "M010809WSP", "M020909AAA0810BBB", "M01"}}

NextDecl ==
    \/ (Len(lines) < MaxDeclLines /\ \E line \in DeclLines : ParseLine(line))
    \/ Return
    \/ ScanErr

SpecDecl == Init /\ [][NextDecl]_vars

\* the i-th triple of a well-formed declaration line, from 1
Triple(line, i) ==
    [TLC |-> Cols(line, 1 + 7 * i, 3 + 7 * i),
     StartColumn |-> num(line, 7 * i - 3, 7 * i - 2),
     FinishColumn |-> num(line, 7 * i - 1, 7 * i)]

\* the column the first triple of a declaration must start at
FirstColumn(line) == IF line[1] = 73 THEN 36 ELSE 8

RECURSIVE ExpectedColumn(_, _)
\* the column triple i is expected to start at: one past the finish of the
\* last accepted triple before it, or the first column
ExpectedColumn(line, i) ==
    IF i = 1 THEN FirstColumn(line)
    ELSE IF /\ Triple(line, i - 1).StartColumn = ExpectedColumn(line, i - 1)
            /\ Triple(line, i - 1).FinishColumn >= Triple(line, i - 1).StartColumn
         THEN Triple(line, i - 1).FinishColumn + 1
         ELSE ExpectedColumn(line, i - 1)

\* triple i satisfies the column rule
TripleAccepted(line, i) ==
    /\ Triple(line, i).StartColumn = ExpectedColumn(line, i)
    /\ Triple(line, i).FinishColumn >= Triple(line, i).StartColumn

\* the cause reported for a rejected triple
TripleCause(line, i) ==
    [kind |-> IF Triple(line, i).StartColumn # ExpectedColumn(line, i)
              THEN "invalid start column" ELSE "invalid finish column",
     arg |-> Triple(line, i).TLC]

\* the numbers 1..n that satisfy Test, in increasing order
Indices(n, Test(_)) == SelectSeq([i \in 1..n |-> i], Test)

\* the accepted and the rejected triples of a line, in line order
AcceptedTriples(line) ==
    Indices(num(line, 2, 3), LAMBDA i : TripleAccepted(line, i))
RejectedTriples(line) ==
    Indices(num(line, 2, 3), LAMBDA i : ~TripleAccepted(line, i))

\* additions are contiguous from column first on, in increasing order
Contiguous(additions, first) ==
    \A k \in DOMAIN additions :
        /\ additions[k].StartColumn = IF k = 1 THEN first
                                       ELSE additions[k - 1].FinishColumn + 1
        /\ additions[k].StartColumn <= additions[k].FinishColumn

\* C24: an I, J or M line that is not the letter, a count N and N groups of
\* four digits and three upper-case letters gives a nil slot and an 'invalid
\* record' error.  Otherwise its triples are checked left to right against
\* an expected start column, 36 for I and 8 for J and M at first, and one
\* past the finish of the last accepted triple afterwards: a triple is
\* accepted iff it starts there and does not finish before it starts, a
\* wrong start being reported in preference to a wrong finish.  The accepted
\* additions are contiguous, non-overlapping and in increasing column order.
C24_DeclarationColumns ==
    (LastDecoded /\ LastLine[1] \in {73, 74, 77}) =>
        IF ~WellFormedDecl(LastLine)
        THEN LastRecord = NilRecord /\ LastLineErr = <<invalidRecordError(LastLine[1])>>
        ELSE /\ LastLineErr = [k \in DOMAIN RejectedTriples(LastLine) |->
                                  TripleCause(LastLine, RejectedTriples(LastLine)[k])]
             /\ parseRecordAdditions(LastLine, FirstColumn(LastLine)).additions =
                    [k \in DOMAIN AcceptedTriples(LastLine) |->
                        Triple(LastLine, AcceptedTriples(LastLine)[k])]
             /\ Contiguous(parseRecordAdditions(LastLine, FirstColumn(LastLine)).additions,
                           FirstColumn(LastLine))
             /\ LastRecord # NilRecord =>
                    /\ LastRecord.type = CASE LastLine[1] = 73 -> "IRecord"
                                            [] LastLine[1] = 74 -> "JRecord"
                                            [] LastLine[1] = 77 -> "MRecord"
                    /\ Contiguous(LastRecord.Additions, FirstColumn(LastLine))
                    /\ Len(LastRecord.Additions) = num(LastLine, 2, 3)

\* a rejected triple between two accepted ones: the third is checked
\* against the column after the first
C24_Witness ==
    /\ lines = <<Bytes("I033636AAA3838BBB3737CCC")>>
    /\ records = <<NilRecord>>
    /\ Len(errs) = 1
    /\ errs[1].Err = <<[kind |-> "invalid start column", arg |-> Bytes("BBB")]>>

\* two triples accepted
C24_WitnessAccepted ==
    /\ lines = <<Bytes("J020810WDI1113WSP")>>
    /\ Len(records) = 1 /\ records[1].type = "JRecord"
    /\ Len(records[1].Additions) = 2 /\ errs = <<>>

----------------------------------------------------------------------------
(* Termination: C25.  The program is sequential and keeps running: once   *)
(* the loop over the lines can end, parseLines returns (weak fairness of   *)
(* Return, which is enabled for as long as no iteration is stuck).         *)

MaxTermLines == 3

TermLines ==
    {Bytes(s) : s \in {"HFDTE010203", "HFDTE311299",
                       "I013636TDS", "I013644TDS", "I013645TDS", "I023650LAD5165LOD",
                       "B2359594708879N00832146EA0092900941456789012345",
                       "B0000014708879N00832146EA0092900941456789012345"}}

NextTerm ==
    \/ (Len(lines) < MaxTermLines /\ \E line \in TermLines : ParseLine(line))
    \/ Return
    \/ ScanErr

SpecTerm == Init /\ [][NextTerm]_vars /\ WF_vars(Return)

\* C25: ParseLines terminates on every finite list of lines: the day-advance
\* loop ends for every date and watermark, and installing an accepted I
\* record terminates for every declared width of LAD, LOD and TDS, a TDS
\* range wider than 9 columns included.
C25_ParseLinesTerminates == <>(pc = "done")

\* the parse never returns exactly when the B table holds a TDS addition
\* wider than 9 columns; LAD and LOD of any width do not stop it
C25_HangsOnlyOnWideTDS ==
    pc = "hang" <=>
        /\ TDS \in DOMAIN p.bRecordsAdditionsByTLC
        /\ width(p.bRecordsAdditionsByTLC[TDS]) > 9

\* the day-advance loop takes no more steps than the watermark is days
\* ahead of the date, and one more
C25_DayAdvanceStep ==
    TimeStep =>
        /\ p'.date.day >= p.date.day
        /\ p'.date.day - p.date.day <=
               IF p.prevTime.day >= p.date.day THEN p.prevTime.day - p.date.day + 1 ELSE 0

C25_DayAdvanceEnds == [][C25_DayAdvanceStep]_vars

\* an I record with a TDS of 10 columns was accepted and its installation
\* never ends
C25_WitnessHang ==
    /\ pc = "hang"
    /\ lines = <<Bytes("I013645TDS")>>
    /\ records[1].type = "IRecord"

----------------------------------------------------------------------------
(* No panic: C26.                                                          *)

MaxBoundsLines == 2

BoundsLines ==
    {Bytes(s) : s \in {"I013636LAD", "I013699FXA", "I013601AAA", "I013645TDS",
                       "J010808WDI", "J010899AAA", "M010807AAA",
                       "B1501444708879N00832146EA0092900941",
                       "B1501444708879N00832146EA00929009411",
                       "K0000011", "K000001", "N000001", "N",
                       "C5111359N00101899WTAKEOFF", "D20331", "HXPLT", "H", "G*"}}

NextBounds ==
    \/ (Len(lines) < MaxBoundsLines /\ \E line \in BoundsLines : ParseLine(line))
    \/ Return
    \/ ScanErr

SpecBounds == Init /\ [][NextBounds]_vars

\* every addition the parser holds
InstalledAdditions ==
    {p.bRecordAdditions[i] : i \in DOMAIN p.bRecordAdditions}
        \cup {p.kRecordAdditions[i] : i \in DOMAIN p.kRecordAdditions}
        \cup {p.nRecordAdditions[i] : i \in DOMAIN p.nRecordAdditions}
        \cup {p.bRecordsAdditionsByTLC[c] : c \in DOMAIN p.bRecordsAdditionsByTLC}
        \cup ({p.tdsBRecordAddition, p.ladBRecordAddition, p.lodBRecordAddition}
                  \ {NoAddition})

\* C26: parsing never panics: every installed addition has
\* 1 <= start column <= finish column, so the slice taken when decoding it
\* is within bounds whenever the line is at least as long as the finish
\* column, and every indexed group and line[0] is on a non-empty value.
C26_NoPanic ==
    /\ \A a \in InstalledAdditions : 1 <= a.StartColumn /\ a.StartColumn <= a.FinishColumn
    /\ \A line \in BoundsLines :
           /\ Len(line) >= 1
           /\ ~panics(p, line)
           /\ \A a \in additionsRead(p, line) :
                  Len(line) >= a.FinishColumn =>
                      sliceInBounds(a.StartColumn - 1, a.FinishColumn, Len(line))

\* an addition in the last column of a fix was decoded
C26_Witness ==
    /\ Len(records) = 2
    /\ records[1].type = "IRecord"
    /\ records[2].type = "BRecord" /\ DOMAIN records[2].Additions = {LAD}
    /\ Len(lines[2]) = p.ladBRecordAddition.FinishColumn

\* a fix too short for its declared addition
C26_WitnessShort ==
    /\ Len(records) = 2
    /\ records[1].type = "IRecord"
    /\ records[2].type = "BRecord" /\ records[2].Additions = <<>>
    /\ \E c \in DOMAIN errs[1].Err : errs[1].Err[c] = missingAdditionError(p.ladBRecordAddition)

----------------------------------------------------------------------------
(* Fixes whose declared LAD, LOD or TDS cannot be decoded: C27.            *)

MaxUndecodedLines == 3

UndecodedLines ==
    {Bytes(s) : s \in {"HFDTE010203", "I013636LAD", "I013636LOD", "I013636TDS",
                       "I033636TDS3737LAD3838LOD",
                       "B1501444708879N00832146EA0092900941",
                       "B1501444708879N00832146EA0092900941x",
                       "B1501444708879N00832146EA00929009414",
                       "B1501444708879S00832146WA0092900941456"}}

NextUndecoded ==
    \/ (Len(lines) < MaxUndecodedLines /\ \E line \in UndecodedLines : ParseLine(line))
    \/ Return
    \/ ScanErr

SpecUndecoded == Init /\ [][NextUndecoded]_vars

\* the text is an integer: digits, after an optional minus sign
IsInteger(data) ==
    \/ Len(data) >= 1 /\ \A i \in DOMAIN data : IsDigit(data[i])
    \/ Len(data) >= 2 /\ data[1] = 45 /\ \A i \in 2..Len(data) : IsDigit(data[i])

\* the addition is declared and cannot be decoded on the line: the line is
\* too short for its columns, or their text is not an integer
Undecodable(a, line) ==
    /\ a # NoAddition
    /\ \/ Len(line) < a.FinishColumn
       \/ ~IsInteger(Cols(line, a.StartColumn, a.FinishColumn))

\* the last line gave a fix
FixParsed == LastDecoded /\ LastRecord.type = "BRecord"

\* a fix whose declared LAD, LOD or TDS cannot be decoded is still produced,
\* with the minutes of the base columns and a timestamp of whole seconds
C27_UndecodedKeepsBaseMinutes ==
    (Len(lines) >= 1 /\ pc # "hang" /\ bRecordRx(LastLine)) =>
        /\ FixParsed
        /\ Undecodable(p.ladBRecordAddition, LastLine) =>
               /\ LastRecord.Lat.deg = num(LastLine, 8, 9)
               /\ LastRecord.Lat.min = Int64(num(LastLine, 10, 14))
               /\ LastRecord.Lat.div = p.latMinDiv
        /\ Undecodable(p.lodBRecordAddition, LastLine) =>
               /\ LastRecord.Lon.deg = num(LastLine, 16, 18)
               /\ LastRecord.Lon.min = Int64(num(LastLine, 19, 23))
               /\ LastRecord.Lon.div = p.lonMinDiv
        /\ Undecodable(p.tdsBRecordAddition, LastLine) => LastRecord.Time.nsec = 0

\* C27: when a declared LAD (LOD) cannot be decoded on a B line, the record
\* is still produced and its latitude (longitude) is degrees + base
\* minutes / 60000, as if no LAD (LOD) had been declared; an undecodable
\* TDS leaves the timestamp at whole seconds.
C27_UndecodedAdditionKeepsBase ==
    /\ C27_UndecodedKeepsBaseMinutes
    /\ FixParsed =>
           /\ Undecodable(p.ladBRecordAddition, LastLine) =>
                  LastRecord.Lat.div = Int64(LatMinDivBase)
           /\ Undecodable(p.lodBRecordAddition, LastLine) =>
                  LastRecord.Lon.div = Int64(LatMinDivBase)

\* a fix too short for its declared LAD was produced
C27_WitnessUndecoded ==
    /\ Len(records) = 2 /\ records[1].type = "IRecord" /\ FixParsed
    /\ Undecodable(p.ladBRecordAddition, LastLine)
    /\ LastRecord.Lat.min = Int64(8879)
    /\ LastRecord.Lat.div = Int64(600000)

----------------------------------------------------------------------------
(* A DTE header without a date: C28.                                       *)

\* the value ends in six digits, or in six digits, a comma and two digits
EndsInDate(value) ==
    \/ Len(value) >= 6 /\ \A i \in (Len(value) - 5)..Len(value) : IsDigit(value[i])
    \/ /\ Len(value) >= 9
       /\ \A i \in (Len(value) - 8)..(Len(value) - 3) : IsDigit(value[i])
       /\ value[Len(value) - 2] = 44
       /\ IsDigit(value[Len(value) - 1]) /\ IsDigit(value[Len(value)])

\* an H line of source F, O or P with the code DTE, not of the form
\* HFDTEddmmyy, whose value does not end in a date
DateHeaderWithoutDate(line) ==
    /\ hRecordRx(line)
    /\ Cols(line, 3, 5) = <<68, 84, 69>>
    /\ ~hfdteRecordRx(line)
    /\ ~EndsInDate(hValue(line))

\* such a line reports an invalid H record and leaves the parser as it was
C28_HeaderStep ==
    (Len(lines') = Len(lines) + 1 /\ DateHeaderWithoutDate(StepLine)) =>
        /\ Len(errs') = Len(errs) + 1
        /\ errs'[Len(errs')] = Error(Len(lines'), <<invalidRecordError(72)>>)
        /\ p' = p

C28_BadDateHeaderStep == [][C28_HeaderStep]_vars

\* the lines that are not DTE headers without a date, and their slots
LinesWithDate == SelectSeq(lines, LAMBDA l : ~DateHeaderWithoutDate(l))
SlotsWithDate ==
    Indices(Len(records), LAMBDA i : ~DateHeaderWithoutDate(NonEmptyLines[i]))

\* the parse of the input without its DTE headers without a date gives the
\* other lines the records they have, and leaves the parser as it is
AsIfAbsent(d) ==
    /\ d.records = [k \in DOMAIN SlotsWithDate |-> records[SlotsWithDate[k]]]
    /\ d.p = p

\* C28: a generic DTE header whose value does not end in a date reports an
\* 'invalid H record' error and does not change the flight date: the
\* time-bearing records after it are stamped as if the line were absent.
C28_BadDateHeaderKeepsDate ==
    pc # "hang" =>
        /\ \A i \in DOMAIN lines :
               DateHeaderWithoutDate(lines[i]) =>
                   \E e \in DOMAIN errs : errs[e] = Error(i, <<invalidRecordError(72)>>)
        /\ AsIfAbsent(parseLines(p.allowInvalidChars, LinesWithDate))

\* a fix stamped with the date of the header before a DTE header without a
\* date
C28_Witness ==
    /\ lines = <<Bytes("HFDTE010203"), Bytes("HFDTE:bad"),
                 Bytes("B2359594708879N00832146EA0092900941")>>
    /\ Len(records) = 3
    /\ records[2].type = "HRecord"
    /\ errs = <<Error(2, <<invalidRecordError(72)>>)>>
    /\ records[3].Time = [day |-> records[1].Date.day, sec |-> 86399, nsec |-> 0]

----------------------------------------------------------------------------
(* The order of the causes of a line's error: C29.                         *)

MaxOrderLines == 3

OrderLines ==
    {<<0>>} \cup
    {Bytes(s) : s \in {"HFDTE010203", "I033636TDS3737LAD3838LOD", "I013939FXA", "I013636FXA",
                       "B1501444708879N00832146EA0092900941",
                       "B1501444708879N00832146EA0092900941*",
                       "B1501444708879N00832146EA00929009414x6",
                       "B1501444708879N00832146EA0092900941456*",
                       "X*", "I01*"}}

NextOrder ==
    \/ (Len(lines) < MaxOrderLines /\ \E line \in OrderLines : ParseLine(line))
    \/ Return
    \/ ScanErr

SpecOrder == Init /\ [][NextOrder]_vars

\* the failure, if any, of decoding the addition on the line
AdditionFailure(a, line) ==
    IF a = NoAddition THEN <<>>
    ELSE IF Len(line) < a.FinishColumn THEN <<missingAdditionError(a)>>
    ELSE IF ~IsInteger(Cols(line, a.StartColumn, a.FinishColumn))
         THEN <<atoiSyntaxError(Cols(line, a.StartColumn, a.FinishColumn))>>
    ELSE <<>>

RECURSIVE AdditionFailures(_, _)
\* the failures of the additions on the line, in the order of the additions
AdditionFailures(additions, line) ==
    IF additions = <<>> THEN <<>>
    ELSE AdditionFailure(Head(additions), line) \o AdditionFailures(Tail(additions), line)

\* the invalid character cause of the line, if any
InvalidCharCause(line) ==
    IF ~p.allowInvalidChars /\ \E i \in DOMAIN line : line[i] \notin Allowlist
    THEN <<invalidCharErr(line[CHOOSE i \in DOMAIN line :
                                   /\ line[i] \notin Allowlist
                                   /\ \A j \in 1..(i - 1) : line[j] \in Allowlist])>>
    ELSE <<>>

\* C29: the causes of a line's error keep their detection order.  For a B
\* line: the TDS failure, 'no date', the LAD failure, the LOD failure, then
\* one failure per declared addition in declaration order.  An 'invalid
\* character' cause is the last cause of its line, after the record's own.
C29_CausesInDetectionOrder ==
    LastDecoded =>
        /\ bRecordRx(LastLine) =>
               LastLineErr = AdditionFailure(p.tdsBRecordAddition, LastLine)
                             \o (IF IsZero(p.date) THEN <<errNoDate>> ELSE <<>>)
                             \o AdditionFailure(p.ladBRecordAddition, LastLine)
                             \o AdditionFailure(p.lodBRecordAddition, LastLine)
                             \o AdditionFailures(p.bRecordAdditions, LastLine)
                             \o InvalidCharCause(LastLine)
        /\ \A c \in DOMAIN LastLineErr :
               LastLineErr[c].kind = "invalid character" =>
                   /\ c = Len(LastLineErr)
                   /\ <<LastLineErr[c]>> = InvalidCharCause(LastLine)
        /\ InvalidCharCause(LastLine) # <<>> =>
               /\ LastLineErr # <<>>
               /\ <<LastLineErr[Len(LastLineErr)]>> = InvalidCharCause(LastLine)
        /\ ~(LastLine[1] \in 65..78) =>
               LastLineErr = <<unknownRecordTypeError(LastLine[1])>> \o InvalidCharCause(LastLine)

\* a fix with eight causes: TDS, no date, LAD, LOD, the three declared
\* additions, and the invalid character last
C29_Witness ==
    /\ lines = <<Bytes("I033636TDS3737LAD3838LOD"),
                 Bytes("B1501444708879N00832146EA0092900941*")>>
    /\ ~p.allowInvalidChars
    /\ Len(errs) = 1
    /\ errs[1].Err = <<atoiSyntaxError(<<42>>), errNoDate,
                       missingAdditionError(p.ladBRecordAddition),
                       missingAdditionError(p.lodBRecordAddition),
                       atoiSyntaxError(<<42>>),
                       missingAdditionError(p.ladBRecordAddition),
                       missingAdditionError(p.lodBRecordAddition),
                       invalidCharErr(42)>>

\* the unknown record type before the invalid character
C29_WitnessUnknown ==
    /\ lines = <<<<0>>>> /\ ~p.allowInvalidChars
    /\ errs = <<Error(1, <<unknownRecordTypeError(0), invalidCharErr(0)>>)>>

----------------------------------------------------------------------------
(* The lists of fixes and of extension records: C30.                       *)

MaxListLines == 3

ListLines ==
    {Bytes(s) : s \in {"HFDTE010203", "I013636FXA", "J010810WDI",
                       "B1501444708879N00832146EA0092900941",
                       "B1501444708879N00832146EA00929009417",
                       "B000005", "K000003", "K000004123", "K12"}}

NextList ==
    \/ (Len(lines) < MaxListLines /\ \E line \in ListLines : ParseLine(line))
    \/ Return
    \/ ScanErr

SpecList == Init /\ [][NextList]_vars

IsBRecord(r) == r.type = "BRecord"

IsKRecord(r) == r.type = "KRecord"

\* the lines, of those that got a slot, that have the shape of the letter
ShapedLines(b) ==
    SelectSeq(NonEmptyLines,
              LAMBDA line : line[1] = b /\ (IF b = 66 THEN bRecordRx(line) ELSE knRecordRx(line)))

\* C30: BRecords is exactly the sequence of the B records in Records and
\* KRecords the sequence of the K records, in the same order; a B or K line
\* that failed structurally has a nil slot and is in neither list, one with
\* field-level errors only is in its list.
C30_ListsAreTheRecords ==
    /\ bRecords = SelectSeq(records, IsBRecord)
    /\ kRecords = SelectSeq(records, IsKRecord)
    /\ Len(bRecords) = Len(ShapedLines(66))
    /\ Len(kRecords) = Len(ShapedLines(75))
    /\ \A i \in DOMAIN bRecords : bRecords[i] # NilRecord
    /\ \A i \in DOMAIN kRecords : kRecords[i] # NilRecord
    /\ LastDecoded /\ LastLine[1] \in {66, 75} =>
           IF (IF LastLine[1] = 66 THEN bRecordRx(LastLine) ELSE knRecordRx(LastLine))
           THEN /\ LastRecord # NilRecord
                /\ LastLine[1] = 66 => bRecords[Len(bRecords)] = LastRecord
                /\ LastLine[1] = 75 => kRecords[Len(kRecords)] = LastRecord
           ELSE /\ LastRecord = NilRecord
                /\ LastLineErr = <<invalidRecordError(LastLine[1])>>
    /\ pc = "done" /\ ~result.igc.nil =>
           /\ result.igc.BRecords = SelectSeq(result.igc.Records, IsBRecord)
           /\ result.igc.KRecords = SelectSeq(result.igc.Records, IsKRecord)

\* a fix without date, a fix line that failed structurally, and an
\* extension record without date
C30_Witness ==
    /\ lines = <<Bytes("B1501444708879N00832146EA0092900941"),
                 Bytes("B000005"), Bytes("K000003")>>
    /\ pc = "done"
    /\ Len(result.igc.Errs) = 3
    /\ result.igc.Records[2] = NilRecord
    /\ result.igc.BRecords = <<result.igc.Records[1]>>
    /\ result.igc.KRecords = <<result.igc.Records[3]>>
    /\ ErrOfLine(1) = <<errNoDate>>
    /\ ErrOfLine(3) = <<errNoDate>>

\* an extension line that failed structurally between two records that
\* miss their declared addition
C30_WitnessNilK ==
    /\ lines = <<Bytes("J010810WDI"), Bytes("K12"), Bytes("K000003")>>
    /\ records[2] = NilRecord
    /\ kRecords = <<records[3]>>
    /\ Len(errs) = 2
    /\ \E c \in DOMAIN ErrOfLine(3) : ErrOfLine(3)[c].kind = "missing addition"

====
